---- MODULE Spec2Model ----
(***************************************************************************)
(* Plugin supervision of NebulaCore: nebula_core/core/plugin_manager.py,   *)
(* with the adapter of plugin_grpc_client.py and the resource groups of    *)
(* cgroup_v2.py.                                                           *)
(*                                                                         *)
(* The manager runs on one asyncio event loop.  A coroutine runs without   *)
(* interruption until it awaits something that really suspends (an RPC     *)
(* under asyncio.wait_for, a sleep, the wait for a process exit).  Every   *)
(* action below is one such uninterrupted stretch: it resumes one task at  *)
(* its suspension point (or starts it) and runs it to its next suspension  *)
(* point or to its end.  Tasks: the health monitor "hm", the rescan "rs",  *)
(* and the caller-triggered calls "c1", "c2", ...                          *)
(*                                                                         *)
(* One plugin name is modelled.  The configuration is either production   *)
(* mode (process_runtime_enabled, in-process plugins off) or development   *)
(* mode with in-process plugins and no process runtime.                    *)
(***************************************************************************)
EXTENDS Integers, Sequences, FiniteSets, TLC

\* ---- bounds of the model ----
NCallers == 1          \* concurrent caller-triggered calls
MaxRescans == 2        \* rescans (the first one is the one of initialize())
MaxProbed == 1         \* calls and health cycles are started, and workers
                       \* fail, until MaxProbed rescans have been made; after
                       \* that the tasks under way run to their end
MaxClock == 30         \* seconds of wall-clock time the client is watched
TickSec == 5           \* seconds between two looks at the clock
MaxOoms == 1           \* oom_kill events in one resource group
CounterCap == 5        \* no new call or health cycle once a failure counter
                       \* of the record has reached this value
MaxLaunches == 3       \* the launch numbers of the tokens a client may send
MaxWrites == 2         \* a plugin's context is followed until the store and
                       \* the event bus hold this many rows and events

PLUGIN_STATE_INITIALIZED == "initialized"
PLUGIN_STATE_HEALTHY == "healthy"
PLUGIN_STATE_DEGRADED == "degraded"
PLUGIN_STATE_UNRESPONSIVE == "unresponsive"
PLUGIN_STATE_CRASHED == "crashed"
PLUGIN_STATE_DISABLED == "disabled"

CallerNames == <<"c1", "c2", "c3", "c4">>
CallerIds == {CallerNames[i] : i \in 1..NCallers}
TaskIds == {"hm", "rs"} \cup CallerIds

\* what the plugin root holds for the plugin name and how it is loaded: a
\* loadable process plugin, a process plugin whose plugin.json has a
\* mismatched api_version, nothing (the name is then an entry of
\* config["external"]), or a plugin loaded in-process (development mode).
DiskKinds == {"process", "badversion", "grpc", "in_process"}
\* how the host treats a worker launch: it works, subprocess.Popen raises
\* (runner missing), assign_pid raises (cgroup.procs not writable), the
\* worker exits before the first readiness check, or init_timeout_sec is
\* over before the first readiness check
HostStates == {"ok", "popen_fails", "assign_fails", "exits", "late"}

VARIABLES
    config,        \* PluginManager.config and the number of rescans the
                   \* operator makes (see Scenarios)
    recs,          \* the PluginRecord objects ever created, by record id
    registry,      \* PluginManager._plugins[name]: a record id, 0 when absent
    procs,         \* the worker processes ever spawned, by pid
    groups,        \* the resource groups ever created, by group id
    tasks,         \* the coroutines: position and local variables
    disk,          \* the plugin root / external config (see DiskKinds),
                   \* "absent" once the plugin is taken away
    cgroup_ready,  \* PluginManager._cgroup_ready
    sock,          \* the socket file runtime_socket_dir/<name>.sock exists
    client,        \* a GrpcPluginClient: endpoint, allow_remote, _channel
                   \* (open or None), _disabled_until
    clock,         \* time.time(), in seconds
    wire,          \* history: what the last call of the client did
    uncounted,     \* history: worker failures of a record that happened and
                   \* are not yet counted in its consecutive_crashes;
                   \* below 0 when more crashes are counted than happened
    spawned,       \* history: workers launched, per record id
    manifest,      \* a PluginManifest as _load_manifest builds it, with the
                   \* scopes its plugin.json declares
    context,       \* the PluginContext made for that manifest: scopes and
                   \* whether it has an event bus
    identity,      \* the identity store: users, user_identity_tags and
                   \* identity_roles
    emitted,       \* the events put on the event bus
    returned,      \* what the last call on the context or the plugin gave
    served,        \* what the last request to a worker's RPC server carried
                   \* and whether plugin code was run for it
    raised,        \* history: the PluginError messages the step just taken
                   \* raised to the caller of plugin_health/plugin_sync_users
    asked,         \* history: the calls of _maybe_restart made by the step
                   \* just taken (see Requested)
    reported,      \* history: the failures _start_process_plugin raised in
                   \* the step just taken (see start_raised)
    monitor,       \* _health_monitor_loop: the records still to check in
                   \* the cycle under way, those checked in it, and the
                   \* number of cycles begun
    runner,        \* one run of plugin_runner.main: its arguments, the
                   \* plugin directory, where it is, what it has done
    scan           \* one rescan over several directory entries and
                   \* external entries, and what it gave

vars == <<config, recs, registry, procs, groups, tasks, disk, cgroup_ready,
          sock, client, clock, wire, uncounted, spawned, raised, asked,
          reported, monitor, manifest, context, identity, emitted, returned,
          served, runner, scan>>

\* ---- configuration values (PluginManager.__init__) ----
\* Each is max(1, int(config.get(...))).  A restart of a process record is
\* only ever asked for after a counted crash, so the restart budget can run
\* out before the record is disabled for its crashes only when max_crashes
\* is at least max_restarts + 2: the first scenario is chosen that way and
\* is run with one rescan; the second disables a record at its second
\* crash and is run with a second rescan; in the third the plugin is taken
\* away from the plugin root after the first rescan and rescanned; the
\* fourth leaves room for two restarts of one record.
\* The timeouts are config entries in tenths of a second, << >> for an
\* entry that is not given; they are not given in these scenarios.
Scenarios ==
    {[max_restarts |-> 1, max_crashes |-> 3, rescans |-> 1,
      removal |-> FALSE, default_timeout_sec |-> << >>,
      max_timeout_sec |-> << >>, call_timeout_sec |-> << >>,
      init_timeout_sec |-> << >>],
     [max_restarts |-> 1, max_crashes |-> 2, rescans |-> MaxRescans,
      removal |-> FALSE, default_timeout_sec |-> << >>,
      max_timeout_sec |-> << >>, call_timeout_sec |-> << >>,
      init_timeout_sec |-> << >>],
     [max_restarts |-> 1, max_crashes |-> 2, rescans |-> 1,
      removal |-> TRUE, default_timeout_sec |-> << >>,
      max_timeout_sec |-> << >>, call_timeout_sec |-> << >>,
      init_timeout_sec |-> << >>],
     [max_restarts |-> 2, max_crashes |-> 4, rescans |-> 1,
      removal |-> FALSE, default_timeout_sec |-> << >>,
      max_timeout_sec |-> << >>, call_timeout_sec |-> << >>,
      init_timeout_sec |-> << >>]}

max_restarts == config.max_restarts
max_crashes == config.max_crashes

\* config.get(key, default)
config_get(entry, default) == IF entry = << >> THEN default ELSE entry[1]

\* _clamp_timeout without the upper limit
clamp_timeout_open(value) == IF value < 1 THEN 1 ELSE value

\* _clamp_timeout: max(0.1, min(value, 30.0)), in tenths of a second
clamp_timeout(value) ==
    LET low == IF value < 300 THEN value ELSE 300
    IN  IF low > 1 THEN low ELSE 1

init_timeout_sec == clamp_timeout(config_get(config.init_timeout_sec, 50))
default_timeout_sec == clamp_timeout(config_get(config.default_timeout_sec, 100))
max_timeout_sec == clamp_timeout(config_get(config.max_timeout_sec, 300))
call_timeout_sec ==
    LET own == clamp_timeout(config_get(config.call_timeout_sec,
                                        default_timeout_sec))
    IN  IF own < max_timeout_sec THEN own ELSE max_timeout_sec

\* _safe_call: timeout = min(self.call_timeout_sec, self.max_timeout_sec)
safe_call_timeout ==
    IF call_timeout_sec < max_timeout_sec THEN call_timeout_sec
    ELSE max_timeout_sec

\* _invoke: asyncio.wait_for(..., timeout=max(0.1, float(timeout))); the
\* task waits for the plugin at position pc under that deadline
invoke_wait(M, t, pc, timeout) ==
    [M EXCEPT !.tasks[t].pc = pc,
              !.tasks[t].timeout = IF timeout > 1 THEN timeout ELSE 1]

timeout_restart_threshold == 2
health_restart_threshold == 2

ALLOWED_SCOPES ==
    {"users.read", "users.write", "roles.read", "roles.write",
     "identity_tags.read", "identity_tags.write", "events.emit"}

\* no token: what a request without x-nebula-token metadata carries
NoToken == [scopes |-> {}, nonce |-> <<0, 0>>]

\* a record that starts with one restart already used
PluginRecord_used(src) ==
    [source |-> src, status |-> PLUGIN_STATE_INITIALIZED,
     consecutive_timeouts |-> 0, consecutive_health_failures |-> 0,
     consecutive_crashes |-> 0, restart_count |-> 1,
     process |-> 0, cgroup_path |-> 0, cgroup_oom_kill_count |-> 0,
     plugin_obj |-> FALSE, plugin_dir |-> "", manifest_ok |-> TRUE,
     token |-> NoToken]

\* PluginRecord / PluginRuntime with the dataclass defaults
PluginRecord(src) ==
    [source |-> src, status |-> PLUGIN_STATE_INITIALIZED,
     consecutive_timeouts |-> 0, consecutive_health_failures |-> 0,
     consecutive_crashes |-> 0, restart_count |-> 0,
     process |-> 0, cgroup_path |-> 0, cgroup_oom_kill_count |-> 0,
     plugin_obj |-> FALSE, plugin_dir |-> "", manifest_ok |-> TRUE,
     token |-> NoToken]

IdleTask ==
    [pc |-> "idle", rid |-> 0, proc |-> 0, cgroup |-> 0, cont |-> "done",
     from |-> "none", method |-> "none", timeout |-> 0,
     launched |-> <<0, 0>>]

\* the part of the state a coroutine works on.  host is how the host
\* treats a worker launch during the running step (see HostStates),
\* graceful whether the worker the step has waited for left on SIGTERM
\* (rather than by the SIGKILL that follows the grace period), reason the
\* reason= argument of the next _maybe_restart call
Pack ==
    [recs |-> recs, registry |-> registry, procs |-> procs, groups |-> groups,
     tasks |-> tasks, sock |-> sock, uncounted |-> uncounted,
     spawned |-> spawned, raised |-> {}, asked |-> << >>,
     reported |-> << >>, monitor |-> monitor, host |-> "ok",
     graceful |-> TRUE,
     reason |-> "none"]

\* positions where a coroutine is suspended and the loop runs other tasks
Suspended == {"idle", "hc_wait", "sc_wait", "hc_rpc", "sc_rpc", "stop_wait", "assign_wait",
              "poll_wait", "poll_sleep", "dl_wait", "init_wait",
              "hook_wait", "sd_wait", "cancelled", "stopped"}

Goto(M, t, pc) == [M EXCEPT !.tasks[t].pc = pc]
Finish(M, t) == [M EXCEPT !.tasks[t] = IdleTask]
Return(M, t) ==
    IF M.tasks[t].cont = "done" THEN Finish(M, t)
    ELSE [M EXCEPT !.tasks[t].pc = M.tasks[t].cont, !.tasks[t].cont = "done"]

\* ---- processes and resource groups of the host ----
\* procs and groups hold what exists now; a slot is free once its process
\* has exited / its group is removed.  A handle (Popen object, group path)
\* is the slot number, 0 for None / "", and GONE once the process has exited
\* or the group was removed: all such handles behave alike.
GONE == 0 - 1
NoProc == [alive |-> FALSE, grp |-> 0, rid |-> 0, token |-> NoToken]
NoGroup == [exists |-> FALSE, oom |-> 0, made |-> <<0, 0>>]

RECURSIVE Trim(_, _)
Trim(s, free) ==
    IF Len(s) > 0 /\ s[Len(s)] = free
    THEN Trim(SubSeq(s, 1, Len(s) - 1), free)
    ELSE s

FreeSlot(s, free) ==
    IF \E i \in 1..Len(s) : s[i] = free
    THEN CHOOSE i \in 1..Len(s) :
             s[i] = free /\ \A j \in 1..(i - 1) : s[j] # free
    ELSE Len(s) + 1

Put(s, i, v) == IF i = Len(s) + 1 THEN Append(s, v) ELSE [s EXCEPT ![i] = v]

\* the records, with every handle of the exited process p turned into GONE
RECURSIVE ProcessGone(_, _)
ProcessGone(rs, p) ==
    IF Len(rs) = 0 THEN rs
    ELSE LET R == rs[Len(rs)]
         IN  Append(ProcessGone(SubSeq(rs, 1, Len(rs) - 1), p),
                    IF R.process = p THEN [R EXCEPT !.process = GONE] ELSE R)

\* the records, with every path of the removed group g turned into GONE
RECURSIVE GroupGone(_, _)
GroupGone(rs, g) ==
    IF Len(rs) = 0 THEN rs
    ELSE LET R == rs[Len(rs)]
         IN  Append(GroupGone(SubSeq(rs, 1, Len(rs) - 1), g),
                    IF R.cgroup_path = g THEN [R EXCEPT !.cgroup_path = GONE]
                    ELSE R)

\* process p has exited
Exited(M, p) ==
    IF p <= 0 THEN M
    ELSE [M EXCEPT
            !.procs = Trim([M.procs EXCEPT ![p] = NoProc], NoProc),
            !.recs = ProcessGone(M.recs, p),
            !.tasks = [t \in TaskIds |->
                        IF M.tasks[t].proc = p
                        THEN [M.tasks[t] EXCEPT !.proc = GONE]
                        ELSE M.tasks[t]]]

\* group g has been removed
Removed(M, g) ==
    [M EXCEPT
        !.groups = Trim([M.groups EXCEPT ![g] = NoGroup], NoGroup),
        !.recs = GroupGone(M.recs, g),
        !.tasks = [t \in TaskIds |->
                    IF M.tasks[t].cgroup = g
                    THEN [M.tasks[t] EXCEPT !.cgroup = GONE]
                    ELSE M.tasks[t]]]

\* proc is not None and proc.poll() is None
ProcAlive(M, p) == p > 0

is_process_alive(M, rid) == ProcAlive(M, M.recs[rid].process)

\* CgroupV2Manager.cleanup_group: rmdir unless members remain
cleanup_group(M, g) ==
    IF g <= 0 THEN M
    ELSE IF \E p \in 1..Len(M.procs) : M.procs[p].grp = g
         THEN M
         ELSE Removed(M, g)

cleanup_cgroup(M, rid) ==
    LET path == M.recs[rid].cgroup_path
        M1 == [M EXCEPT !.recs[rid].cgroup_path = 0,
                        !.recs[rid].cgroup_oom_kill_count = 0]
    IN  cleanup_group(M1, path)

\* memory_events(path)["oom_kill"], 0 when the group is gone
OomCount(M, g) == IF g > 0 THEN M.groups[g].oom ELSE 0

OomIncreased(M, rid) ==
    /\ M.recs[rid].cgroup_path # 0
    /\ OomCount(M, M.recs[rid].cgroup_path) > M.recs[rid].cgroup_oom_kill_count

\* _is_oom_killed answering True without recording the count it saw
is_oom_killed_forgetful(M, rid) ==
    [M EXCEPT !.recs[rid].cgroup_oom_kill_count =
                  M.recs[rid].cgroup_oom_kill_count]

\* _is_oom_killed records the count it saw when it answers True
is_oom_killed(M, rid) ==
    [M EXCEPT !.recs[rid].cgroup_oom_kill_count =
                  OomCount(M, M.recs[rid].cgroup_path)]

\* history: a worker failure of record rid happens / is counted as a crash
Failed(M, rid) == [M EXCEPT !.uncounted[rid] = @ + 1]
Counted(M, rid) ==
    [M EXCEPT !.uncounted[rid] = IF @ > 0 THEN @ - 1 ELSE GONE]

\* _mark_crashed disabling one crash late
mark_crashed_late(M0, rid) ==
    LET c == M0.recs[rid].consecutive_crashes + 1
        M == Counted(M0, rid)
    IN  [M EXCEPT !.recs[rid].consecutive_crashes = c,
                  !.recs[rid].status =
                      IF c > max_crashes THEN PLUGIN_STATE_DISABLED
                      ELSE PLUGIN_STATE_CRASHED]

mark_crashed(M0, rid) ==
    LET c == M0.recs[rid].consecutive_crashes + 1
        M == Counted(M0, rid)
    IN  [M EXCEPT !.recs[rid].consecutive_crashes = c,
                  !.recs[rid].status =
                      IF c >= max_crashes THEN PLUGIN_STATE_DISABLED
                      ELSE PLUGIN_STATE_CRASHED]

\* the reason= arguments of the _maybe_restart calls that follow a crash
\* signal
CrashReasons == {"oom_kill", "crash", "health failure"}

\* a crash signal seen by a detector: _mark_crashed, then
\* _maybe_restart(rec, reason)
Detected(M, t, rid, cont, reason) ==
    LET M1 == mark_crashed(M, rid)
    IN  [M1 EXCEPT !.reason = reason,
                   !.tasks[t].pc = "mr", !.tasks[t].cont = cont]

\* ---- PluginManager._health_check ----
health_check(M, t) ==
    LET rid == M.tasks[t].rid
        R == M.recs[rid]
    IN  IF R.status = PLUGIN_STATE_DISABLED THEN Finish(M, t)
        ELSE IF R.source = "process" /\ OomIncreased(M, rid)
             THEN Detected(is_oom_killed(M, rid), t, rid, "done", "oom_kill")
        ELSE IF R.source = "process" /\ ~is_process_alive(M, rid)
             THEN Detected(M, t, rid, "done", "health failure")
        ELSE IF R.plugin_obj
             THEN invoke_wait(M, t, "hc_wait", default_timeout_sec)
        ELSE Goto(M, t, "hc_fail")

\* the success branch of _health_check (data is a dict)
health_ok(M, t) ==
    LET rid == M.tasks[t].rid
    IN  Finish([M EXCEPT !.recs[rid].consecutive_health_failures = 0,
                         !.recs[rid].status = PLUGIN_STATE_HEALTHY], t)

\* the except branch of _health_check
health_failed(M, t) ==
    LET rid == M.tasks[t].rid
        n == M.recs[rid].consecutive_health_failures + 1
        M1 == [M EXCEPT !.recs[rid].consecutive_health_failures = n,
                        !.recs[rid].status = PLUGIN_STATE_DEGRADED]
    IN  IF n >= health_restart_threshold
        THEN [M1 EXCEPT !.recs[rid].status = PLUGIN_STATE_UNRESPONSIVE,
                        !.reason = "health failures",
                        !.tasks[t].pc = "mr", !.tasks[t].cont = "done"]
        ELSE Finish(M1, t)

\* ---- PluginManager._safe_call ----
\* _safe_call without the check for a disabled record
safe_call_unchecked(M, t) ==
    LET rid == M.tasks[t].rid
        R == M.recs[rid]
    IN  IF R.source = "process" /\ OomIncreased(M, rid)
        THEN Detected(is_oom_killed(M, rid), t, rid, "sc_alive", "oom_kill")
        ELSE Goto(M, t, "sc_alive")

safe_call(M, t) ==
    LET rid == M.tasks[t].rid
        R == M.recs[rid]
    IN  IF R.status = PLUGIN_STATE_DISABLED
        THEN Finish([M EXCEPT !.raised = @ \cup {"Plugin is disabled"}], t)
        ELSE IF R.source = "process" /\ OomIncreased(M, rid)
             THEN Detected(is_oom_killed(M, rid), t, rid, "sc_alive",
                           "oom_kill")
        ELSE Goto(M, t, "sc_alive")

\* second liveness check of _safe_call
safe_call_alive(M, t) ==
    LET rid == M.tasks[t].rid
        R == M.recs[rid]
    IN  IF R.source = "process" /\ ~is_process_alive(M, rid)
        THEN Detected(M, t, rid, "sc_invoke", "crash")
        ELSE Goto(M, t, "sc_invoke")

\* _invoke(rec.plugin_obj, method, ...): a missing health/sync_users method
\* raises PluginError at once, otherwise the call is awaited
safe_call_invoke(M, t) ==
    IF M.recs[M.tasks[t].rid].plugin_obj
    THEN [M EXCEPT !.tasks[t].pc = "sc_wait",
                   !.tasks[t].timeout = safe_call_timeout]
    ELSE Goto(M, t, "sc_error")

safe_call_ok(M, t) ==
    LET rid == M.tasks[t].rid
    IN  Finish([M EXCEPT !.recs[rid].status = PLUGIN_STATE_HEALTHY,
                         !.recs[rid].consecutive_timeouts = 0,
                         !.recs[rid].consecutive_health_failures = 0], t)

\* except Exception branch of _safe_call
safe_call_error(M, t) ==
    LET rid == M.tasks[t].rid
        R == M.recs[rid]
    IN  IF R.source = "process" /\ ~is_process_alive(M, rid)
        THEN Detected(M, t, rid, "done", "crash")
        ELSE Finish([M EXCEPT !.recs[rid].status = PLUGIN_STATE_DEGRADED], t)

handle_timeout(M, t) ==
    LET rid == M.tasks[t].rid
        n == M.recs[rid].consecutive_timeouts + 1
        M1 == [M EXCEPT !.recs[rid].consecutive_timeouts = n,
                        !.recs[rid].status = PLUGIN_STATE_DEGRADED]
    IN  IF n >= timeout_restart_threshold
        THEN [M1 EXCEPT !.reason = "timeouts",
                        !.tasks[t].pc = "mr", !.tasks[t].cont = "done"]
        ELSE Finish(M1, t)

\* a call of _maybe_restart: the step notes what the record was like when
\* the restart was asked for
Requested(M, t) ==
    LET rid == M.tasks[t].rid
    IN  [M EXCEPT !.asked =
            Append(@, [task |-> t, rid |-> rid, reason |-> M.reason,
                       status |-> M.recs[rid].status,
                       consecutive_crashes |-> M.recs[rid].consecutive_crashes,
                       restart_count |-> M.recs[rid].restart_count,
                       spawned |-> M.spawned[rid]])]

\* _maybe_restart letting one restart too many through
maybe_restart_over(M, t) ==
    LET rid == M.tasks[t].rid
        R == M.recs[rid]
    IN  IF R.source # "process" THEN Return(M, t)
        ELSE IF R.status = PLUGIN_STATE_DISABLED THEN Return(M, t)
        ELSE IF R.restart_count > max_restarts
             THEN Return([M EXCEPT !.recs[rid].status = PLUGIN_STATE_DISABLED],
                         t)
        ELSE [M EXCEPT !.recs[rid].restart_count = R.restart_count + 1,
                       !.tasks[t].from = "restart", !.tasks[t].pc = "sp_stop"]

\* ---- PluginManager._maybe_restart, up to the call of _start_process_plugin
maybe_restart(M, t) ==
    LET rid == M.tasks[t].rid
        R == M.recs[rid]
    IN  IF R.source # "process" THEN Return(M, t)
        ELSE IF R.status = PLUGIN_STATE_DISABLED THEN Return(M, t)
        ELSE IF R.restart_count >= max_restarts
             THEN Return([M EXCEPT !.recs[rid].status = PLUGIN_STATE_DISABLED],
                         t)
        ELSE [M EXCEPT !.recs[rid].restart_count = R.restart_count + 1,
                       !.tasks[t].from = "restart", !.tasks[t].pc = "sp_stop"]

\* _maybe_restart after _start_process_plugin returned
restart_ok(M, t) ==
    LET rid == M.tasks[t].rid
    IN  Return([M EXCEPT !.recs[rid].status = PLUGIN_STATE_INITIALIZED,
                         !.recs[rid].consecutive_timeouts = 0,
                         !.recs[rid].consecutive_health_failures = 0,
                         !.tasks[t].from = "none"], t)

\* _maybe_restart after _start_process_plugin raised
restart_failed(M, t) ==
    LET rid == M.tasks[t].rid
        M1 == mark_crashed(M, rid)
    IN  Return([M1 EXCEPT !.tasks[t].from = "none"], t)

\* ---- PluginManager._shutdown_process: the part before the wait.
\* `next` is where the caller goes on once the process is stopped.
shutdown_process(M, t, waitpc, next) ==
    LET rid == M.tasks[t].rid
        p == M.recs[rid].process
        M1 == [M EXCEPT !.recs[rid].process = 0]
    IN  IF ProcAlive(M, p)
        THEN [M1 EXCEPT !.tasks[t].proc = p, !.tasks[t].pc = waitpc]
        ELSE Goto(cleanup_cgroup(M1, rid), t, next)

\* the worker p that was sent SIGTERM has gone.  plugin_runner.main: a
\* worker that leaves on SIGTERM unlinks the socket path on its way out; one
\* that had to be killed leaves the file behind.
Terminated(M, p) ==
    IF p <= 0 THEN M
    ELSE [Exited(M, p) EXCEPT !.sock = IF M.graceful THEN FALSE ELSE @]

\* _shutdown_process after proc.wait() (or proc.kill() and the second wait)
shutdown_waited(M, t, next) ==
    LET rid == M.tasks[t].rid
        p == M.tasks[t].proc
        M1 == [Terminated(M, p) EXCEPT !.tasks[t].proc = 0]
    IN  Goto(cleanup_cgroup(M1, rid), t, next)

\* _generate_scoped_token: the scopes are those of the record's manifest;
\* the nonce makes every token differ from the ones made before: it is
\* written as the record and the number of the launch the token is made for
generate_scoped_token_again(M, rid) ==
    [scopes |-> {s \in manifest.scopes : s \in ALLOWED_SCOPES},
     nonce |-> <<rid, 1>>]

generate_scoped_token(M, rid) ==
    [scopes |-> {s \in manifest.scopes : s \in ALLOWED_SCOPES},
     nonce |-> <<rid, M.spawned[rid] + 1>>]

\* CgroupV2Manager.create_group: mkdir(exist_ok=False) of a directory named
\* after the plugin and the millisecond: the handle of a group that does
\* not exist
create_group_reused(M) == 1

create_group(M) == FreeSlot(M.groups, NoGroup)

\* ---- PluginManager._start_process_plugin ----
\* from the new token to the first readiness poll: unlink the socket file,
\* create the group, launch the worker (which binds the socket, unless it
\* exits at once), attach it to the group, record the runtime handle
start_process_plugin(M0, t) ==
    LET rid == M0.tasks[t].rid
        \* socket_path.unlink(missing_ok=True)
        M == [M0 EXCEPT !.sock = FALSE]
        g == IF cgroup_ready THEN create_group(M) ELSE 0
        M1 == IF cgroup_ready
              THEN [M EXCEPT !.groups = Put(M.groups, g,
                                            [exists |-> TRUE, oom |-> 0,
                                             made |-> <<rid,
                                                 M.spawned[rid] + 1>>]),
                             !.recs[rid].cgroup_path = g]
              ELSE M
        p == FreeSlot(M.procs, NoProc)
        n == M.spawned[rid] + 1
        dir == IF M.tasks[t].from = "scan" THEN "dir"
               ELSE IF M.recs[rid].plugin_dir = "" THEN "."
               ELSE M.recs[rid].plugin_dir
        host == M.host
    IN  IF host = "popen_fails"
        THEN \* Popen raised: the new group is removed again
             IF g # 0
             THEN Goto([cleanup_group(M1, g) EXCEPT
                            !.recs[rid].cgroup_path = 0], t, "sp_fail")
             ELSE Goto(M1, t, "sp_fail")
        ELSE IF g # 0 /\ host = "assign_fails"
        THEN \* assign_pid raised: proc.terminate(), then wait for the exit
             [M1 EXCEPT !.procs = Put(M.procs, p,
                                      [alive |-> TRUE, grp |-> 0, rid |-> rid,
                                       token |-> generate_scoped_token(M, rid)]),
                        !.sock = TRUE,
                        !.spawned[rid] = n,
                        !.tasks[t].launched = <<rid, n>>,
                        !.tasks[t].proc = p, !.tasks[t].cgroup = g,
                        !.tasks[t].pc = "assign_wait"]
        ELSE LET M2 == [M1 EXCEPT
                            !.spawned[rid] = n,
                            !.recs[rid].cgroup_oom_kill_count =
                                IF g # 0 THEN 0
                                ELSE M1.recs[rid].cgroup_oom_kill_count,
                            !.recs[rid].plugin_dir = dir,
                            !.recs[rid].token = generate_scoped_token(M, rid),
                            !.recs[rid].plugin_obj = TRUE,
                            !.tasks[t].pc = "sp_poll"]
             IN  IF host = "exits"
                 THEN [M2 EXCEPT !.recs[rid].process = GONE,
                                 !.tasks[t].proc = GONE]
                 ELSE [M2 EXCEPT !.procs = Put(M.procs, p,
                                               [alive |-> TRUE, grp |-> g,
                                                rid |-> rid,
                                                token |-> M2.recs[rid].token]),
                                 !.sock = TRUE,
                                 !.recs[rid].process = p,
                                 !.tasks[t].launched = <<rid, n>>,
                                 !.tasks[t].proc = p]

\* the except branch after assign_pid, once the worker has gone
assign_failed(M, t) ==
    LET rid == M.tasks[t].rid
        p == M.tasks[t].proc
        M1 == [Terminated(M, p) EXCEPT !.tasks[t].proc = 0]
        M2 == cleanup_group(M1, M1.tasks[t].cgroup)
    IN  [M2 EXCEPT !.recs[rid].cgroup_path = 0, !.tasks[t].cgroup = 0,
                   !.tasks[t].pc = "sp_fail"]

\* head of the readiness loop: deadline, proc.poll(), then the Health call
start_poll(M, t) ==
    IF M.host = "late" THEN Goto(M, t, "sp_deadline")
    ELSE IF ~ProcAlive(M, M.tasks[t].proc) THEN Goto(M, t, "sp_deadline")
    ELSE invoke_wait(M, t, "poll_wait",
                     IF default_timeout_sec < 30 THEN default_timeout_sec
                     ELSE 30)

\* the readiness poll returned a dict
start_ready(M, t) ==
    [M EXCEPT !.recs[M.tasks[t].rid].status = PLUGIN_STATE_HEALTHY,
              !.tasks[t].proc = 0, !.tasks[t].launched = <<0, 0>>,
              !.tasks[t].pc = "sp_ok"]

\* _start_process_plugin returned: back in _maybe_restart, or in
\* _scan_process_plugins where _initialize_plugin follows
start_returned(M, t) ==
    IF M.tasks[t].from = "restart" THEN restart_ok(M, t)
    ELSE [M EXCEPT !.recs[M.tasks[t].rid].status = PLUGIN_STATE_INITIALIZED,
                   !.tasks[t].pc = "install"]

\* _start_process_plugin raised; the step notes what the record referred
\* to, and whether the worker this attempt launched (the one holding the
\* token made for it) still ran, when the failure was reported
start_raised(M0, t) ==
    LET rid == M0.tasks[t].rid
        M == [M0 EXCEPT !.reported =
                 Append(@, [task |-> t, rid |-> rid,
                            process |-> M0.recs[rid].process,
                            cgroup_path |-> M0.recs[rid].cgroup_path,
                            live |-> {p \in 1..Len(M0.procs) :
                                        /\ M0.procs[p].alive
                                        /\ M0.procs[p].token.nonce
                                               = M0.tasks[t].launched}])]
        M1 == [Failed(M, rid) EXCEPT !.tasks[t].proc = 0,
                                     !.tasks[t].launched = <<0, 0>>]
    IN  IF M.tasks[t].from = "restart" THEN restart_failed(M1, t)
        ELSE [M1 EXCEPT !.recs[rid].status = PLUGIN_STATE_CRASHED,
                        !.tasks[t].pc = "install"]

\* ---- rescan: _scan_process_plugins / _scan_external_grpc_plugins for the
\* one plugin name; the new record is the one Rescan appended
scan_plugins(M, t) ==
    LET rid == M.tasks[t].rid
    IN  IF disk = "badversion"
        THEN [M EXCEPT !.recs[rid].status = PLUGIN_STATE_DEGRADED,
                       !.recs[rid].manifest_ok = FALSE,
                       !.tasks[t].pc = "install"]
        ELSE IF disk = "process"
        THEN [M EXCEPT !.tasks[t].from = "scan", !.tasks[t].pc = "sp_stop"]
        ELSE \* _scan_external_grpc_plugins / _scan_in_process_plugins: the
             \* adapter or the plugin instance, then _initialize_plugin
             invoke_wait([M EXCEPT !.recs[rid].plugin_obj = TRUE], t,
                         "init_wait", init_timeout_sec)

\* rescan: self._plugins = discovered (the name is discovered again, so the
\* old record is not shut down)
install_registry(M, t) ==
    Finish([M EXCEPT !.registry = M.tasks[t].rid], t)

\* rescan when the name is not discovered: self._plugins = discovered, then
\* _shutdown_record of the old record
drop_registry(M, t) ==
    IF M.registry = 0 THEN Finish(M, t)
    ELSE [M EXCEPT !.registry = 0, !.tasks[t].rid = M.registry,
                   !.tasks[t].from = "drop", !.tasks[t].pc = "sd_hook"]

\* _shutdown_record: the shutdown hook of the plugin object is awaited
\* (_invoke returns at once when there is no plugin object)
shutdown_record(M, t) ==
    IF M.recs[M.tasks[t].rid].plugin_obj
    THEN invoke_wait(M, t, "hook_wait", 30)
    ELSE Goto(M, t, "sd")

\* one statement block of task t
Block(M, t) ==
    LET pc == M.tasks[t].pc
    IN  CASE pc = "hc" -> health_check(M, t)
          [] pc = "hc_fail" -> health_failed(M, t)
          [] pc = "sc" -> safe_call(M, t)
          [] pc = "sc_alive" -> safe_call_alive(M, t)
          [] pc = "sc_invoke" -> safe_call_invoke(M, t)
          [] pc = "sc_error" -> safe_call_error(M, t)
          [] pc = "sc_timeout" -> handle_timeout(M, t)
          [] pc = "mr" -> maybe_restart(Requested(M, t), t)
          [] pc = "sp_stop" -> shutdown_process(M, t, "stop_wait", "sp_spawn")
          [] pc = "sp_spawn" -> start_process_plugin(M, t)
          [] pc = "sp_poll" -> start_poll(M, t)
          [] pc = "sp_deadline" -> shutdown_process(M, t, "dl_wait", "sp_fail")
          [] pc = "sp_ok" -> start_returned(M, t)
          [] pc = "sp_fail" -> start_raised(M, t)
          [] pc = "scan" -> scan_plugins(M, t)
          [] pc = "install" -> install_registry(M, t)
          [] pc = "drop" -> drop_registry(M, t)
          [] pc = "sd_hook" -> shutdown_record(M, t)
          [] pc = "sd" -> shutdown_process(M, t, "sd_wait", "sd_done")
          [] pc = "sd_done" -> Finish(M, t)

\* run task t until it suspends or ends (the machine state is bound to M
\* so that it is computed once)
RECURSIVE Run(_, _)
Run(M0, t) ==
    CHOOSE R \in {IF M.tasks[t].pc \in Suspended THEN M
                  ELSE Run(Block(M, t), t) : M \in {M0}} : TRUE

Apply(M) ==
    /\ recs' = M.recs
    /\ registry' = M.registry
    /\ procs' = M.procs
    /\ groups' = M.groups
    /\ tasks' = M.tasks
    /\ sock' = M.sock
    /\ uncounted' = M.uncounted
    /\ spawned' = M.spawned
    /\ raised' = M.raised
    /\ asked' = M.asked
    /\ reported' = M.reported
    /\ monitor' = M.monitor

Begin(h) == [Pack EXCEPT !.host = h]

\* ---- what _invoke(rec.plugin_obj, method) gives the manager ----
\* What the plugin does with a request made now: it answers in time
\* ("ok"), it fails ("fail": unreachable, error status, adapter in
\* cool-down) or it does not answer before the deadline ("timeout").
RpcOutcomes == {"ok", "fail", "timeout"}

\* ---- GrpcPluginClient._validate_endpoint ----
\* An endpoint string is a sequence of tokens: the separators "://", ":",
\* "/", "@" and the pieces between them.
FirstIndex(s, tok) ==
    IF \E i \in 1..Len(s) : s[i] = tok
    THEN CHOOSE i \in 1..Len(s) : s[i] = tok /\ \A j \in 1..(i - 1) : s[j] # tok
    ELSE 0

LastIndex(s, tok) ==
    IF \E i \in 1..Len(s) : s[i] = tok
    THEN CHOOSE i \in 1..Len(s) :
             s[i] = tok /\ \A j \in (i + 1)..Len(s) : s[j] # tok
    ELSE 0

Separators == {"://", ":", "/", "@"}

\* int(port_raw) / the port of urlparse: the number, or NotANumber when the
\* text is not a number (ValueError)
NotANumber == 0 - 1
to_int(tok) ==
    CASE tok = "50051" -> 50051
      [] tok = "0" -> 0
      [] OTHER -> NotANumber

\* urlparse(candidate): netloc is what stands between "://" and the next
\* "/"; the user info before the last "@" is dropped; hostname is the piece
\* before ":" ("" for None) and port the number after it (0 for None)
url_netloc(e) ==
    LET rest == SubSeq(e, FirstIndex(e, "://") + 1, Len(e))
        slash == FirstIndex(rest, "/")
    IN  IF slash = 0 THEN rest ELSE SubSeq(rest, 1, slash - 1)

url_hostinfo(e) ==
    LET netloc == url_netloc(e)
    IN  SubSeq(netloc, LastIndex(netloc, "@") + 1, Len(netloc))

url_hostname(e) ==
    LET h == url_hostinfo(e)
    IN  IF Len(h) = 0 \/ h[1] \in Separators THEN "" ELSE h[1]

url_port(e) ==
    LET h == url_hostinfo(e)
        c == FirstIndex(h, ":")
    IN  IF c = 0 \/ c = Len(h) THEN 0 ELSE to_int(h[c + 1])

\* candidate.rsplit(":", 1): the text before the last ":" ("" when it is
\* empty, "several" when it is more than one piece) and the text after it
rsplit_host(e) ==
    LET k == LastIndex(e, ":")
    IN  IF k = 1 THEN "" ELSE IF k = 2 THEN e[1] ELSE "several"

rsplit_port(e) ==
    LET k == LastIndex(e, ":")
    IN  IF k + 1 = Len(e) THEN to_int(e[k + 1]) ELSE NotANumber

LoopbackHosts == {"127.0.0.1", "localhost", "::1"}

\* _validate_endpoint without the check of the policy
validate_endpoint_any(e, allow_remote) ==
    LET scheme == FirstIndex(e, "://") # 0
        host == IF scheme THEN url_hostname(e) ELSE rsplit_host(e)
        port == IF scheme THEN url_port(e) ELSE rsplit_port(e)
    IN  /\ scheme \/ LastIndex(e, ":") # 0
        /\ port # NotANumber
        /\ host # "" /\ port # 0

\* TRUE when _validate_endpoint returns, FALSE when it raises ValueError
validate_endpoint(e, allow_remote) ==
    LET scheme == FirstIndex(e, "://") # 0
        host == IF scheme THEN url_hostname(e) ELSE rsplit_host(e)
        port == IF scheme THEN url_port(e) ELSE rsplit_port(e)
    IN  /\ scheme \/ LastIndex(e, ":") # 0
        /\ port # NotANumber
        /\ host # "" /\ port # 0
        /\ allow_remote \/ host \in LoopbackHosts

\* the endpoint _start_process_plugin builds, f"unix://{socket_path}" with
\* the absolute socket path under runtime_socket_dir, and the endpoint of an
\* entry of config["external"]
WorkerEndpoint == <<"unix", "://", "/", "plugins", "/", "name.sock">>
ExternalEndpoint == <<"127.0.0.1", ":", "50051">>

endpoint_of(src) == IF src = "process" THEN WorkerEndpoint ELSE ExternalEndpoint

\* GrpcPluginClient.health / .sync_users: _ensure_channel validates the
\* endpoint, then the blocking gRPC call; every exception, the ValueError
\* of the validation and DEADLINE_EXCEEDED included, is caught and gives None
client_health(e, rpc) ==
    IF validate_endpoint(e, FALSE) /\ rpc = "ok" THEN "data" ELSE "None"

client_sync_users(e, rpc) ==
    IF validate_endpoint(e, FALSE) /\ rpc = "ok" THEN "data" ELSE "None"

\* GrpcPluginAdapter.health: data or {"status": "unreachable"}
adapter_health(e, rpc) ==
    IF client_health(e, rpc) = "None" THEN "unreachable"
    ELSE client_health(e, rpc)

\* GrpcPluginAdapter.sync_users: raises PluginError on None
adapter_sync_users(e, rpc) ==
    IF client_sync_users(e, rpc) = "None" THEN "error"
    ELSE client_sync_users(e, rpc)

\* a plugin object loaded in-process: its coroutine returns, raises, or is
\* still suspended when the timeout of asyncio.wait_for is over
plugin_call(rpc) ==
    IF rpc = "ok" THEN "data" ELSE IF rpc = "fail" THEN "error" ELSE "timeout"

\* _invoke: asyncio.wait_for(fn(*args), timeout).  The adapter's coroutines
\* never suspend (the client call blocks), so wait_for gets their result
\* or exception and raises no TimeoutError for them.
invoke(src, method, rpc) ==
    IF src = "in_process" THEN plugin_call(rpc)
    ELSE IF method = "health" THEN adapter_health(endpoint_of(src), rpc)
    ELSE adapter_sync_users(endpoint_of(src), rpc)

\* isinstance(data, dict)
IsDict(data) == data \in {"data", "unreachable"}

\* an RPC can only be answered by a worker that runs (or by the external
\* server of a grpc record, or by the plugin object itself)
CanAnswer(rid) ==
    recs[rid].source # "process" \/ is_process_alive(Pack, rid)

\* no step changes what is on disk or the cgroup backend's availability
ContextIdle ==
    UNCHANGED <<manifest, context, identity, emitted, returned, served,
                runner, scan>>

Bookkeeping ==
    /\ UNCHANGED <<config, disk, cgroup_ready, client, clock, wire>>
    /\ ContextIdle

\* The host's treatment of launches is an input of every step.  It matters
\* only to a step that launches: one whose run on a working host launches.
HostChoices(M) == IF M.spawned # spawned THEN HostStates ELSE {"ok"}

\* keeps the counters of the model finite
Capped(rid) ==
    /\ recs[rid].consecutive_crashes < CounterCap
    /\ recs[rid].consecutive_timeouts < CounterCap
    /\ recs[rid].consecutive_health_failures < CounterCap

\* ---- GrpcPluginClient: channel and cool-down ----
COOLDOWN_SEC == 10

\* the endpoints a client is made for, each with the host it names ("" for
\* the unix socket of a local worker, which is no network target)
Targets ==
    {[endpoint |-> WorkerEndpoint, host |-> ""],
     [endpoint |-> ExternalEndpoint, host |-> "127.0.0.1"],
     [endpoint |-> <<"localhost", ":", "50051">>, host |-> "localhost"],
     [endpoint |-> <<"plugins.example", ":", "50051">>,
      host |-> "plugins.example"],
     [endpoint |-> <<"grpc", "://", "localhost", ":", "50051">>,
      host |-> "localhost"],
     [endpoint |-> <<"grpc", "://", "plugins.example", ":", "50051">>,
      host |-> "plugins.example"],
     [endpoint |-> <<"grpc", "://", "localhost", "@", "plugins.example",
                     ":", "50051">>,
      host |-> "plugins.example"]}

\* GrpcPluginClient.__init__
NewClient(e, allow_remote) ==
    [endpoint |-> e, allow_remote |-> allow_remote, channel |-> FALSE,
     disabled_until |-> 0]

NoCall ==
    [method |-> "none", result |-> "None", attempted |-> FALSE,
     opened |-> FALSE, sent |-> FALSE, failed_at |-> NotANumber,
     shorted |-> FALSE]

can_attempt(c, now) == now >= c.disabled_until

\* _mark_failure that leaves the channel open
mark_failure_open(c, now) ==
    [c EXCEPT !.disabled_until = now + COOLDOWN_SEC]

\* _mark_failure, close() included
mark_failure(c, now) ==
    [c EXCEPT !.disabled_until = now + COOLDOWN_SEC, !.channel = FALSE]

\* GrpcPluginClient.health / .sync_users called at time now: the client
\* afterwards and the note of what the call did.  rpc is what the target
\* does with the request, payload_ok whether ParseDict takes the payload
\* (it always takes the empty request of health).
client_call(c, w, now, method, rpc, payload_ok) ==
    LET note == [w EXCEPT !.method = method, !.result = "None",
                          !.attempted = FALSE, !.opened = FALSE,
                          !.sent = FALSE]
        valid == validate_endpoint(c.endpoint, c.allow_remote)
        connected == c.channel \/ valid
        parsed == method = "health" \/ payload_ok
        tried == [note EXCEPT !.attempted = TRUE,
                              !.opened = ~c.channel /\ valid,
                              !.sent = connected /\ parsed]
    IN  IF ~can_attempt(c, now)
        THEN [client |-> c, wire |-> [note EXCEPT !.shorted = TRUE]]
        ELSE IF connected /\ parsed /\ rpc = "ok"
        THEN [client |-> [c EXCEPT !.channel = TRUE],
              wire |-> [tried EXCEPT !.result = "data"]]
        ELSE [client |-> mark_failure(c, now),
              wire |-> [tried EXCEPT !.failed_at = now, !.shorted = FALSE]]

\* the manager's state after construction, before the first rescan
\* the health monitor before its first cycle
NoCycle == [items |-> << >>, checked |-> {}, cycles |-> 0]

Constructed ==
    /\ recs = << >>
    /\ registry = 0
    /\ procs = << >>
    /\ groups = << >>
    /\ tasks = [t \in TaskIds |-> IdleTask]
    /\ sock = FALSE
    /\ uncounted = << >>
    /\ spawned = << >>
    /\ raised = {}
    /\ asked = << >>
    /\ reported = << >>
    /\ monitor = NoCycle

\* no plugin code has been given a context yet
NoResult == [op |-> "none", status |-> "none", items |-> << >>]

NoRequest == [pid |-> 0, token |-> NoToken, invoked |-> FALSE]

\* no worker process has been started by hand, no rescan over several
\* entries has been made
NoRunner == [pc |-> "none"]
NoScan == [done |-> FALSE]

NoContext ==
    /\ manifest = [declared |-> {}, api_version |-> "", scopes |-> {},
                   loaded |-> FALSE]
    /\ context = [scopes |-> {}, event_bus |-> FALSE]
    /\ identity = [users |-> {}, tags |-> {}, roles |-> {}]
    /\ emitted = << >>
    /\ returned = NoResult
    /\ served = NoRequest
    /\ runner = NoRunner
    /\ scan = NoScan

\* The first scenario is followed for every kind of plugin, with and
\* without the resource-control filesystem; the second and the third for a
\* process plugin on a host that has it, the fourth for a process plugin on
\* a host that lacks it.
Init ==
    /\ config \in Scenarios
    /\ disk \in DiskKinds
    /\ cgroup_ready \in BOOLEAN
    /\ \/ config.max_crashes = 3
       \/ config.max_crashes = 2 /\ disk = "process" /\ cgroup_ready
       \/ config.max_crashes = 4 /\ disk = "process" /\ ~cgroup_ready
    /\ Constructed
    /\ NoContext
    /\ client = NewClient(ExternalEndpoint, FALSE)
    /\ clock = 0
    /\ wire = NoCall

\* Each step of a task is given by the condition under which it can be
\* taken (...Enabled) and the state the task leaves behind (...Run) for
\* the way h the host treats a launch.
Step(M0) == \E M \in {M0} : Apply(M) /\ Bookkeeping

\* GrpcPluginAdapter.health / .sync_users are coroutines that call the
\* client's blocking gRPC stub directly: from the moment the request is
\* sent until the answer or the RPC deadline the thread of the event loop
\* is inside that call, and no other coroutine is run.  LoopFree(t): no
\* task other than t holds the loop in this way.
LoopFree(t) ==
    \A u \in TaskIds \ {t} : tasks[u].pc \notin {"hc_rpc", "sc_rpc"}

\* the adapter of a grpc record sends the request of task t (it does not
\* when the client is in its cool-down: the call then fails at once)
RpcSent(t) ==
    /\ tasks[t].pc \in {"hc_wait", "sc_wait"}
    /\ recs[tasks[t].rid].source = "grpc"
    /\ LoopFree(t)
    /\ Step([Pack EXCEPT !.tasks[t].pc =
                IF tasks[t].pc = "hc_wait" THEN "hc_rpc" ELSE "sc_rpc"])

\* PluginManager.rescan (the first one is the one made by initialize())
RescanEnabled ==
    /\ tasks["rs"].pc = "idle"
    /\ LoopFree("rs")
    /\ IF disk = "absent" THEN registry # 0 ELSE Len(recs) < config.rescans

RescanRun(h) ==
    LET rid == Len(recs) + 1
        src == IF disk \in {"grpc", "in_process"} THEN disk ELSE "process"
        M == IF disk = "absent"
             THEN [Begin(h) EXCEPT !.tasks["rs"].pc = "drop"]
             ELSE [Begin(h) EXCEPT
                      !.recs = Append(recs, PluginRecord(src)),
                      !.uncounted = Append(uncounted, 0),
                      !.spawned = Append(spawned, 0),
                      !.tasks["rs"].pc = "scan", !.tasks["rs"].rid = rid]
    IN  Run(M, "rs")

Rescan ==
    /\ RescanEnabled
    /\ \E h \in HostChoices(RescanRun("ok")) : Step(RescanRun(h))

\* one cycle of _health_monitor_loop: _health_check on the registry's record
HealthCheckEnabled ==
    /\ tasks["hm"].pc = "idle"
    /\ LoopFree("hm")
    /\ registry # 0
    /\ Len(recs) <= MaxProbed
    /\ Capped(registry)

HealthCheckRun(h) ==
    LET M == [Begin(h) EXCEPT
                 !.tasks["hm"].pc = "hc", !.tasks["hm"].rid = registry]
    IN  Run(M, "hm")

HealthCheck ==
    /\ HealthCheckEnabled
    /\ \E h \in HostChoices(HealthCheckRun("ok")) : Step(HealthCheckRun(h))

\* plugin_health(name) / plugin_sync_users(name, payload)
CallEnabled(t) ==
    /\ tasks[t].pc = "idle"
    /\ LoopFree(t)
    /\ Len(recs) <= MaxProbed
    /\ registry # 0 => Capped(registry)

CallRun(t, method, h) ==
    IF registry = 0
    THEN [Begin(h) EXCEPT !.raised = @ \cup {"Plugin not found"}]
    ELSE LET M == [Begin(h) EXCEPT
                      !.tasks[t].pc = "sc", !.tasks[t].rid = registry,
                      !.tasks[t].method = method]
         IN  Run(M, t)

Call(t, method) ==
    /\ CallEnabled(t)
    /\ \E h \in HostChoices(CallRun(t, method, "ok")) :
          Step(CallRun(t, method, h))

\* the awaited Health call of _health_check returns
HealthReplyEnabled(rpc) ==
    /\ tasks["hm"].pc \in {"hc_wait", "hc_rpc"}
    /\ LoopFree("hm")
    /\ (tasks["hm"].pc = "hc_wait" /\ recs[tasks["hm"].rid].source = "grpc")
          => rpc = "fail"
    /\ rpc = "ok" => CanAnswer(tasks["hm"].rid)

HealthReplyRun(rpc, h) ==
    LET rid == tasks["hm"].rid
        M == Begin(h)
        data == invoke(recs[rid].source, "health", rpc)
        M1 == IF IsDict(data) THEN health_ok(M, "hm")
              ELSE Goto(M, "hm", "hc_fail")
    IN  Run(M1, "hm")

HealthReply(rpc) ==
    /\ HealthReplyEnabled(rpc)
    /\ \E h \in HostChoices(HealthReplyRun(rpc, "ok")) :
          Step(HealthReplyRun(rpc, h))

\* the awaited call of _safe_call returns
CallReplyEnabled(t, rpc) ==
    /\ tasks[t].pc \in {"sc_wait", "sc_rpc"}
    /\ LoopFree(t)
    /\ (tasks[t].pc = "sc_wait" /\ recs[tasks[t].rid].source = "grpc")
          => rpc = "fail"
    /\ rpc = "ok" => CanAnswer(tasks[t].rid)

CallReplyRun(t, rpc, h) ==
    LET M == Begin(h)
        res == invoke(recs[tasks[t].rid].source, tasks[t].method, rpc)
        M1 == IF IsDict(res) THEN safe_call_ok(M, t)
              ELSE IF res = "timeout" THEN Goto(M, t, "sc_timeout")
              ELSE Goto(M, t, "sc_error")
    IN  Run(M1, t)

CallReply(t, rpc) ==
    /\ CallReplyEnabled(t, rpc)
    /\ \E h \in HostChoices(CallReplyRun(t, rpc, "ok")) :
          Step(CallReplyRun(t, rpc, h))

\* the wait for a terminated worker ends (proc.wait(), or kill after the
\* grace period): in _shutdown_process or after a failed assign_pid
ProcessStoppedEnabled(t) ==
    /\ tasks[t].pc \in {"stop_wait", "dl_wait", "assign_wait", "sd_wait"}
    /\ LoopFree(t)

ProcessStoppedRun(t, graceful, h) ==
    LET M == [Begin(h) EXCEPT !.graceful = graceful]
        M1 == IF tasks[t].pc = "stop_wait"
              THEN shutdown_waited(M, t, "sp_spawn")
              ELSE IF tasks[t].pc = "dl_wait"
              THEN shutdown_waited(M, t, "sp_fail")
              ELSE IF tasks[t].pc = "sd_wait"
              THEN shutdown_waited(M, t, "sd_done")
              ELSE assign_failed(M, t)
    IN  Run(M1, t)

ProcessStopped(t, graceful) ==
    /\ ProcessStoppedEnabled(t)
    /\ \E h \in HostChoices(ProcessStoppedRun(t, graceful, "ok")) :
          Step(ProcessStoppedRun(t, graceful, h))

\* the readiness poll of _start_process_plugin returns.  Its except branch
\* and the sleep that follows are entered when _invoke raises.
PollReplyEnabled(t, rpc) ==
    /\ tasks[t].pc = "poll_wait"
    /\ LoopFree(t)
    /\ rpc = "ok" => ProcAlive(Pack, tasks[t].proc)

PollReplyRun(t, rpc, h) ==
    LET M == Begin(h)
        M1 == IF IsDict(invoke("process", "health", rpc))
              THEN start_ready(M, t)
              ELSE Goto(M, t, "poll_sleep")
    IN  Run(M1, t)

PollReply(t, rpc) ==
    /\ PollReplyEnabled(t, rpc)
    /\ \E h \in HostChoices(PollReplyRun(t, rpc, "ok")) :
          Step(PollReplyRun(t, rpc, h))

\* _initialize_plugin of a grpc or in-process record: initialize returned
InitReplyEnabled == tasks["rs"].pc = "init_wait" /\ LoopFree("rs")

InitReplyRun(h) ==
    LET rid == tasks["rs"].rid
        M == [Begin(h) EXCEPT
                 !.recs[rid].status = PLUGIN_STATE_INITIALIZED,
                 !.tasks["rs"].pc = "install"]
    IN  Run(M, "rs")

InitReply ==
    /\ InitReplyEnabled
    /\ \E h \in HostChoices(InitReplyRun("ok")) : Step(InitReplyRun(h))

\* the awaited shutdown hook of _shutdown_record returns, raises or times
\* out: whatever it does is swallowed, _shutdown_process follows
HookReplyEnabled == tasks["rs"].pc = "hook_wait" /\ LoopFree("rs")

HookReplyRun(h) == Run(Goto(Begin(h), "rs", "sd"), "rs")

HookReply ==
    /\ HookReplyEnabled
    /\ \E h \in HostChoices(HookReplyRun("ok")) : Step(HookReplyRun(h))

\* ---- the environment ----
\* the operator takes the plugin away (its directory, or its entry of
\* config["external"]) between two rescans
Remove ==
    /\ config.removal
    /\ disk # "absent"
    /\ registry # 0
    /\ tasks["rs"].pc = "idle"
    /\ Apply(Pack)
    /\ disk' = "absent"
    /\ UNCHANGED <<config, cgroup_ready, client, clock, wire>>
    /\ ContextIdle

\* a worker exits or is killed from outside
Kill(p) ==
    /\ procs[p].alive
    /\ Len(recs) <= MaxProbed
    /\ Apply(Exited(Failed(Pack, procs[p].rid), p))
    /\ Bookkeeping

\* the kernel OOM-kills in the group of worker p: the counter of
\* memory.events goes up; the victim is the worker or one of its children
OomKill(p, worker) ==
    /\ procs[p].alive
    /\ Len(recs) <= MaxProbed
    /\ procs[p].grp # 0
    /\ groups[procs[p].grp].oom < MaxOoms
    /\ LET M == [Failed(Pack, procs[p].rid) EXCEPT
                    !.groups[procs[p].grp].oom = @ + 1]
       IN  Apply(IF worker THEN Exited(M, p) ELSE M)
    /\ Bookkeeping

Next ==
    \/ Rescan
    \/ HealthCheck
    \/ \E t \in CallerIds, m \in {"health", "sync_users"} : Call(t, m)
    \/ \E rpc \in RpcOutcomes : HealthReply(rpc)
    \/ \E t \in CallerIds, rpc \in RpcOutcomes : CallReply(t, rpc)
    \/ \E t \in TaskIds : RpcSent(t)
    \/ \E t \in TaskIds, graceful \in BOOLEAN : ProcessStopped(t, graceful)
    \/ \E t \in TaskIds, rpc \in RpcOutcomes : PollReply(t, rpc)
    \/ InitReply
    \/ HookReply
    \/ Remove
    \/ \E p \in 1..Len(procs) : Kill(p)
    \/ \E p \in 1..Len(procs), w \in BOOLEAN : OomKill(p, w)

Spec == Init /\ [][Next]_vars

\* ---- the manager with its timeouts configured ----
\* The plugin is an entry of config["external"]; each timeout is not
\* given, below the lower limit, between the limits or above the upper one.
TimeoutChoices == {<< >>, <<0>>, <<50>>, <<200>>, <<600>>}

TimeoutInit ==
    /\ config \in {[max_restarts |-> 1, max_crashes |-> 2, rescans |-> 1,
                     removal |-> FALSE, default_timeout_sec |-> d,
                     max_timeout_sec |-> m, call_timeout_sec |-> c,
                     init_timeout_sec |-> i] :
                        d \in TimeoutChoices, m \in TimeoutChoices,
                        c \in TimeoutChoices, i \in TimeoutChoices}
    /\ disk = "grpc"
    /\ cgroup_ready = FALSE
    /\ Constructed
    /\ NoContext
    /\ client = NewClient(ExternalEndpoint, FALSE)
    /\ clock = 0
    /\ wire = NoCall

TimeoutNext ==
    \/ Rescan
    \/ InitReply
    \/ HealthCheck
    \/ \E rpc \in RpcOutcomes : HealthReply(rpc)
    \/ \E t \in CallerIds, m \in {"health", "sync_users"} : Call(t, m)
    \/ \E t \in CallerIds, rpc \in RpcOutcomes : CallReply(t, rpc)
    \/ \E t \in TaskIds : RpcSent(t)

TimeoutSpec == TimeoutInit /\ [][TimeoutNext]_vars

\* ---- one GrpcPluginClient on its own ----
\* The manager makes clients with allow_remote = False for its workers and
\* with config["allow_remote_grpc"] for the entries of config["external"].
ClientInit ==
    /\ config \in {s \in Scenarios : s.removal}
    /\ disk = "grpc"
    /\ cgroup_ready = FALSE
    /\ Constructed
    /\ NoContext
    /\ \E tg \in Targets, allow_remote \in BOOLEAN :
          client = NewClient(tg.endpoint, allow_remote)
    /\ clock = 0
    /\ wire = NoCall

ManagerIdle ==
    UNCHANGED <<config, recs, registry, procs, groups, tasks, disk,
                cgroup_ready, sock, uncounted, spawned, raised, asked,
                reported, monitor>>

ClientCall(method, rpc, payload_ok) ==
    LET out == client_call(client, wire, clock, method, rpc, payload_ok)
    IN  /\ client' = out.client
        /\ wire' = out.wire
        /\ UNCHANGED clock
        /\ ManagerIdle
        /\ ContextIdle

\* GrpcPluginAdapter.shutdown: client.close()
ClientClose ==
    /\ client.channel
    /\ client' = [client EXCEPT !.channel = FALSE]
    /\ UNCHANGED <<clock, wire>>
    /\ ManagerIdle
    /\ ContextIdle

ClientTick ==
    /\ clock + TickSec <= MaxClock
    /\ clock' = clock + TickSec
    /\ UNCHANGED <<client, wire>>
    /\ ManagerIdle
    /\ ContextIdle

ClientNext ==
    \/ \E method \in {"health", "sync_users"}, rpc \in RpcOutcomes,
          payload_ok \in BOOLEAN : ClientCall(method, rpc, payload_ok)
    \/ ClientClose
    \/ ClientTick

ClientSpec == ClientInit /\ [][ClientNext]_vars

\* ---- manifests, the Capability Context and the identity store ----
\* Strings whose characters matter are sequences of one-character strings.
PLUGIN_API_VERSION == "v1"

\* PluginManager._load_manifest and PluginWorker._load_manifest (the same
\* statements): raw is the content of plugin.json.  loaded is FALSE when
\* PluginError("Unsupported plugin api_version") is raised.
load_manifest_unfiltered(raw) ==
    [declared |-> raw.scopes,
     api_version |-> IF raw.api_version = "" THEN PLUGIN_API_VERSION
                     ELSE raw.api_version,
     scopes |-> raw.scopes,
     loaded |-> raw.api_version \in {"", PLUGIN_API_VERSION}]

load_manifest(raw) ==
    [declared |-> raw.scopes,
     api_version |-> IF raw.api_version = "" THEN PLUGIN_API_VERSION
                     ELSE raw.api_version,
     scopes |-> {s \in raw.scopes : s \in ALLOWED_SCOPES},
     loaded |-> raw.api_version \in {"", PLUGIN_API_VERSION}]

\* PluginManifest.sanitized_scopes
sanitized_scopes(m) == {s \in m.scopes : s \in ALLOWED_SCOPES}

system_db == <<"s", "y", "s", "t", "e", "m", ".", "d", "b">>
user == <<"u", "s", "e", "r">>
ValueError == <<"ValueError">>

\* str.isalnum, on the characters that occur in the inputs
Alnum == {"a", "b", "c", "d", "e", "m", "q", "r", "s", "t", "u", "v", "x",
          "y", "C", "D", "0", "1"}
Whitespace == {" "}

\* str.strip(chars)
strip(s, chars) ==
    LET keep == {i \in 1..Len(s) : s[i] \notin chars}
    IN  IF keep = {} THEN << >>
        ELSE SubSeq(s, CHOOSE i \in keep : \A j \in keep : i <= j,
                       CHOOSE i \in keep : \A j \in keep : i >= j)

\* str.lower, on the characters that occur in the inputs
lower(s) ==
    [i \in 1..Len(s) |-> CASE s[i] = "C" -> "c"
                           [] s[i] = "D" -> "d"
                           [] OTHER -> s[i]]

\* PluginContext._normalize_role_token
normalize_role_token(role_tag) ==
    LET token == lower(strip(role_tag, Whitespace))
        dashed == [i \in 1..Len(token) |->
                      IF token[i] \in Alnum \cup {"-", "_"} THEN token[i]
                      ELSE "-"]
        out == strip(dashed, {"-", "_"})
    IN  IF out = << >> THEN user ELSE out

\* db.normalize_client_db_name; ValueError when it raises
normalize_client_db_name(db_name) ==
    LET raw == strip(db_name, Whitespace)
        n == Len(raw)
        named == IF n >= 3 /\ SubSeq(raw, n - 2, n) = <<".", "d", "b">>
                 THEN raw ELSE raw \o <<".", "d", "b">>
        body == SubSeq(named, 1, Len(named) - 3)
    IN  IF \/ raw = << >>
           \/ \E i \in 1..n : raw[i] \in {"/", "\\"}
           \/ \E i \in 1..(n - 1) : raw[i] = "." /\ raw[i + 1] = "."
           \/ named = system_db
        THEN ValueError
        ELSE IF /\ body # << >>
                /\ body[1] \in Alnum
                /\ Len(body) <= 64
                /\ \A i \in 2..Len(body) : body[i] \in Alnum \cup {"_", ".", "-"}
        THEN named
        ELSE ValueError

\* str(db_name or "system.db").strip() or "system.db"
clean_db_name(db_name) ==
    LET raw == strip(IF db_name = << >> THEN system_db ELSE db_name, Whitespace)
    IN  IF raw = << >> THEN system_db ELSE raw

\* PluginContext._normalize_db_name
normalize_db_name(db_name) ==
    IF clean_db_name(db_name) = system_db THEN system_db
    ELSE normalize_client_db_name(clean_db_name(db_name))

\* The operations of the context are functions of C: the identity store,
\* the events emitted and the result (status "ok", or the exception raised).
Ctx == [identity |-> identity, emitted |-> emitted, returned |-> returned]

Raise(C, exc) == [C EXCEPT !.returned = [status |-> exc, items |-> << >>]]

Result(C, items) == [C EXCEPT !.returned = [status |-> "ok", items |-> items]]

Raised(C) == C.returned.status \notin {"ok", "dry_run"}

\* require_scope for each scope of the set, in the order of the code: the
\* first missing one raises PluginPermissionError
require_scope_any(scopes) == scopes \cap context.scopes # {}

require_scope(scopes) == scopes \subseteq context.scopes

\* INSERT INTO user_identity_tags ... ON CONFLICT(db_name, username) DO UPDATE
upsert_tag(tags, db_name, username, role_tag) ==
    {r \in tags : r.db_name # db_name \/ r.username # username}
        \cup {[db_name |-> db_name, username |-> username,
               role_tag |-> role_tag]}

\* PluginContext.sync_user and _sync_user_blocking
sync_user(C, username, db_name, role_tag) ==
    LET clean_username == strip(username, Whitespace)
        clean_db == clean_db_name(db_name)
        lowered == lower(strip(IF role_tag = << >> THEN user ELSE role_tag,
                               Whitespace))
        clean_role == IF lowered = << >> THEN user ELSE lowered
        file == IF clean_db = system_db THEN system_db
                ELSE normalize_client_db_name(clean_db)
        row == [db |-> file, username |-> clean_username]
    IN  IF ~require_scope({"users.write", "identity_tags.write"})
        THEN Raise(C, "PluginPermissionError")
        ELSE IF clean_username = << >> THEN Raise(C, "PluginError")
        ELSE IF file = ValueError THEN Raise(C, "ValueError")
        ELSE Result([C EXCEPT
                        !.identity.users = @ \cup {row},
                        !.identity.tags =
                            upsert_tag(@, clean_db, clean_username, clean_role)],
                    <<[action |-> IF row \in C.identity.users THEN "updated"
                                  ELSE "created",
                       username |-> clean_username, db_name |-> clean_db,
                       role_tag |-> clean_role]>>)

\* PluginContext.list_identity_roles
list_identity_roles(C) ==
    IF ~require_scope({"roles.read"}) THEN Raise(C, "PluginPermissionError")
    ELSE Result(C, << >>)

\* PluginContext.upsert_identity_role
upsert_identity_role(C, name) ==
    IF ~require_scope({"roles.write"}) THEN Raise(C, "PluginPermissionError")
    ELSE Result([C EXCEPT !.identity.roles =
                               @ \cup {normalize_role_token(name)}], << >>)

\* PluginContext.set_identity_tag
set_identity_tag(C, username, db_name, role_tag) ==
    IF ~require_scope({"identity_tags.write"})
    THEN Raise(C, "PluginPermissionError")
    ELSE IF normalize_db_name(db_name) = ValueError THEN Raise(C, "ValueError")
    ELSE IF strip(username, Whitespace) = << >> THEN Raise(C, "PluginError")
    ELSE Result([C EXCEPT !.identity.tags =
                    upsert_tag(@, normalize_db_name(db_name),
                               strip(username, Whitespace),
                               normalize_role_token(role_tag))], << >>)

\* PluginContext.list_users
list_users(C, db_name) ==
    IF ~require_scope({"users.read", "identity_tags.read"})
    THEN Raise(C, "PluginPermissionError")
    ELSE IF normalize_db_name(db_name) = ValueError THEN Raise(C, "ValueError")
    ELSE Result(C, << >>)

\* PluginContext.emit_event
emit_event(C, event_name) ==
    IF ~require_scope({"events.emit"}) THEN Raise(C, "PluginPermissionError")
    ELSE IF ~context.event_bus THEN Raise(C, "PluginError")
    ELSE IF strip(event_name, Whitespace) = << >> THEN Raise(C, "PluginError")
    ELSE Result([C EXCEPT !.emitted =
                    Append(@, strip(event_name, Whitespace))], << >>)

\* ---- the plugins shipped with the host ----
\* the loop "for item in users: ... await self.ctx.sync_user(...)" of both
\* plugins: items without a username are skipped, the first exception ends
\* the loop; done is the list of results so far
RECURSIVE sync_each(_, _, _, _)
sync_each(C, users, ad, done) ==
    IF users = << >> THEN Result(C, done)
    ELSE IF strip(Head(users).username, Whitespace) = << >>
    THEN sync_each(C, Tail(users), ad, done)
    ELSE LET item == Head(users)
             C1 == sync_user(C, strip(item.username, Whitespace),
                             IF ad THEN system_db
                             ELSE IF item.db_name = << >> THEN system_db
                             ELSE item.db_name,
                             IF ad THEN normalize_role_token(item.role_tag)
                             ELSE lower(IF item.role_tag = << >> THEN user
                                        ELSE item.role_tag))
         IN  IF Raised(C1) THEN C1
             ELSE sync_each(C1, Tail(users), ad, done \o C1.returned.items)

\* the fallback users of the plugins (demo.alice and demo.bob; the third
\* one of ad_migration_demo is left out)
DemoUsers ==
    <<[username |-> <<"a">>, db_name |-> system_db, role_tag |-> <<"d", "e", "v">>],
      [username |-> <<"b">>, db_name |-> system_db, role_tag |-> <<"q", "a">>]>>

started == <<"s">>
finished == <<"x">>

\* SampleSyncPlugin.sync_users(payload), payload = {dry_run, users}
SampleSyncPlugin(C, dry_run, given) ==
    LET users == IF given = << >> THEN DemoUsers ELSE given
        preview == [i \in 1..Len(users) |->
                      [action |-> "would_sync",
                       username |-> strip(users[i].username, Whitespace),
                       db_name |-> IF users[i].db_name = << >> THEN system_db
                                   ELSE users[i].db_name,
                       role_tag |-> lower(IF users[i].role_tag = << >>
                                          THEN user ELSE users[i].role_tag)]]
        C1 == emit_event(C, started)
        C2 == list_identity_roles(C1)
        C3 == list_users(C2, system_db)
        C4 == emit_event(C3, finished)
        D2 == upsert_identity_role(C1, <<"c">>)
        D3 == sync_each(D2, users, FALSE, << >>)
        D4 == emit_event(D3, finished)
    IN  IF Raised(C1) THEN C1
        ELSE IF dry_run
        THEN IF Raised(C2) THEN C2
             ELSE IF Raised(C3) THEN C3
             ELSE IF Raised(C4) THEN C4
             ELSE [C4 EXCEPT !.returned =
                      [status |-> "dry_run", items |-> preview]]
        ELSE IF Raised(D2) THEN D2
        ELSE IF Raised(D3) THEN D3
        ELSE IF Raised(D4) THEN D4
        ELSE Result(D4, D3.returned.items)

\* AdMigrationDemoPlugin.sync_users(payload), payload = {dry_run, ad_users};
\* the role_tag of an item stands for the role its groups map to
\* (_resolve_role_tag); the payload gives no limit, cursor or db_name
AdMigrationDemoPlugin(C, dry_run, given) ==
    LET ad_users == IF given = << >> THEN DemoUsers ELSE given
        named == SelectSeq(ad_users,
                     LAMBDA item : strip(item.username, Whitespace) # << >>)
        preview == [i \in 1..Len(named) |->
                      [action |-> "would_sync",
                       username |-> strip(named[i].username, Whitespace),
                       db_name |-> system_db,
                       role_tag |-> normalize_role_token(named[i].role_tag)]]
        C1 == emit_event(C, started)
        C2 == emit_event(C1, finished)
        D2 == list_identity_roles(C1)
        D3 == upsert_identity_role(D2, <<"a", "d", "m">>)
        D4 == sync_each(D3, ad_users, TRUE, << >>)
        D5 == emit_event(D4, finished)
    IN  IF Raised(C1) THEN C1
        ELSE IF dry_run
        THEN IF Raised(C2) THEN C2
             ELSE [C2 EXCEPT !.returned =
                      [status |-> "dry_run", items |-> preview]]
        ELSE IF Raised(D2) THEN D2
        ELSE IF Raised(D3) THEN D3
        ELSE IF Raised(D4) THEN D4
        ELSE IF Raised(D5) THEN D5
        ELSE Result(D5, D4.returned.items)

\* ---- a plugin and its context on their own ----
DeclarableScopes == ALLOWED_SCOPES \cup {"admin.all"}
ApiVersions == {"", "v1", "v2"}
Usernames == {<< >>, <<"u">>}
DbNames == {<< >>, <<"C">>, <<"c", "/">>}
RoleTags == {<<" ", "-">>, <<"D", "e", "v">>, <<"q", "!", "a">>}
EventNames == {<<" ">>, <<"e">>}
UserLists ==
    {<< >>,
     <<[username |-> <<"u">>, db_name |-> << >>, role_tag |-> <<"D", "e", "v">>]>>,
     <<[username |-> <<"u">>, db_name |-> << >>, role_tag |-> <<"q", "a">>],
       [username |-> <<" ">>, db_name |-> << >>, role_tag |-> << >>]>>}

\* PluginManager._initialize_in_process and PluginWorker.initialize:
\* PluginContext(name, manifest.sanitized_scopes(), event_bus); the worker
\* passes event_bus=None
ContextInit ==
    /\ config \in {s \in Scenarios : s.removal}
    /\ disk = "in_process"
    /\ cgroup_ready = FALSE
    /\ Constructed
    /\ client = NewClient(ExternalEndpoint, FALSE)
    /\ clock = 0
    /\ wire = NoCall
    /\ \E declared \in SUBSET DeclarableScopes, v \in ApiVersions :
          manifest = load_manifest([scopes |-> declared, api_version |-> v])
    /\ \E bus \in BOOLEAN :
          context = IF manifest.loaded
                    THEN [scopes |-> sanitized_scopes(manifest),
                          event_bus |-> bus]
                    ELSE [scopes |-> {}, event_bus |-> FALSE]
    /\ identity = [users |-> {}, tags |-> {}, roles |-> {}]
    /\ emitted = << >>
    /\ returned = NoResult
    /\ served = NoRequest
    /\ runner = NoRunner
    /\ scan = NoScan

Writes ==
    Cardinality(identity.users) + Cardinality(identity.tags)
        + Cardinality(identity.roles) + Len(emitted)

\* one call of op on the context, or of the plugin's sync_users, leaving C
Do(op, C) ==
    /\ manifest.loaded
    /\ Writes < MaxWrites
    /\ identity' = C.identity
    /\ emitted' = C.emitted
    /\ returned' = [op |-> op, status |-> C.returned.status,
                    items |-> C.returned.items]
    /\ UNCHANGED <<manifest, context, served, client, clock, wire, runner,
                   scan>>
    /\ ManagerIdle

ContextNext ==
    \/ \E u \in Usernames, d \in DbNames, r \in RoleTags :
          Do("sync_user", sync_user(Ctx, u, d, r))
    \/ \E u \in Usernames, d \in DbNames, r \in RoleTags :
          Do("set_identity_tag", set_identity_tag(Ctx, u, d, r))
    \/ \E r \in RoleTags : Do("upsert_identity_role", upsert_identity_role(Ctx, r))
    \/ \E d \in DbNames : Do("list_users", list_users(Ctx, d))
    \/ Do("list_identity_roles", list_identity_roles(Ctx))
    \/ \E e \in EventNames : Do("emit_event", emit_event(Ctx, e))
    \/ \E dry_run \in BOOLEAN, users \in UserLists :
          Do("SampleSyncPlugin", SampleSyncPlugin(Ctx, dry_run, users))
    \/ \E dry_run \in BOOLEAN, users \in UserLists :
          Do("AdMigrationDemoPlugin", AdMigrationDemoPlugin(Ctx, dry_run, users))

ContextSpec == ContextInit /\ [][ContextNext]_vars

\* ---- the RPC server of a worker (PluginService) ----
\* Health / SyncUsers of the worker with pid p, called by some local client
\* with the given x-nebula-token metadata: _authorized compares it with the
\* token of the command line; context.abort raises, so the plugin's code
\* is run only for an equal token
WorkerRequest(p, token) ==
    /\ procs[p].alive
    /\ served' = [pid |-> p, token |-> token,
                  invoked |-> token = procs[p].token]
    /\ UNCHANGED <<config, recs, registry, procs, groups, tasks, disk,
                   cgroup_ready, sock, client, clock, wire, uncounted,
                   spawned, raised, asked, reported, monitor, manifest,
                   context,
                   identity, emitted, returned, runner, scan>>

\* the tokens a client may send: none, and those made for a launch so far
KnownTokens ==
    {NoToken} \cup {[scopes |-> {s \in manifest.scopes : s \in ALLOWED_SCOPES},
                     nonce |-> <<r, n>>] :
                        r \in 1..Len(spawned), n \in 1..MaxLaunches}

WorkerInit ==
    /\ config \in Scenarios
    /\ disk = "process"
    /\ cgroup_ready = FALSE
    /\ Constructed
    /\ client = NewClient(ExternalEndpoint, FALSE)
    /\ clock = 0
    /\ wire = NoCall
    /\ \E declared \in {{}, {"users.read", "admin.all"}, DeclarableScopes} :
          manifest = load_manifest([scopes |-> declared, api_version |-> "v1"])
    /\ context = [scopes |-> {}, event_bus |-> FALSE]
    /\ identity = [users |-> {}, tags |-> {}, roles |-> {}]
    /\ emitted = << >>
    /\ returned = NoResult
    /\ served = NoRequest
    /\ runner = NoRunner
    /\ scan = NoScan

WorkerNext ==
    \/ Rescan
    \/ HealthCheck
    \/ \E t \in TaskIds, graceful \in BOOLEAN : ProcessStopped(t, graceful)
    \/ \E t \in TaskIds, rpc \in RpcOutcomes : PollReply(t, rpc)
    \/ \E p \in 1..Len(procs) : Kill(p)
    \/ \E p \in 1..Len(procs), token \in KnownTokens : WorkerRequest(p, token)

WorkerSpec == WorkerInit /\ [][WorkerNext]_vars

\* ---- PluginManager.initialize ----
\* CgroupV2Manager.initialize gives ok = False only when cgroups are enabled
\* and the host has no usable cgroup v2 tree (cfg.cgroup_v2, a fact of the
\* host kept with the configuration); initialize raises PluginError then if
\* isolation is also required
cgroup_refused_never(cfg) == FALSE

cgroup_refused(cfg) ==
    cfg.cgroup_enabled /\ cfg.cgroup_required /\ ~cfg.cgroup_v2

\* initialize() up to "await self.rescan()": the rescan is the next step of
\* the task (nothing else can run before it: no record is in the registry)
Initialize ==
    /\ tasks["rs"].pc = "created"
    /\ tasks' = [tasks EXCEPT !["rs"].pc =
                    IF cgroup_refused(config) THEN "refused" ELSE "idle"]
    /\ cgroup_ready' = (~cgroup_refused(config) /\ config.cgroup_enabled
                           /\ config.cgroup_v2)
    /\ UNCHANGED <<config, recs, registry, procs, groups, disk, sock, client,
                   clock, wire, uncounted, spawned, raised, asked,
                   reported, monitor>>
    /\ ContextIdle

\* positions where a task awaits the exit of a worker it sent SIGTERM
AwaitingExit == {"stop_wait", "assign_wait", "dl_wait", "sd_wait"}

\* PluginManager.shutdown().  When initialize() raised there is no health
\* task and the registry is empty: nothing is left to do.  Otherwise the
\* health task is cancelled and awaited: the task ends (a worker it had
\* sent SIGTERM and was waiting for leaves), and the await raises
\* CancelledError, which "except Exception" does not catch (it is a
\* BaseException): shutdown() ends there, before "self._health_task = None"
\* and before the loop over the records.
shutdown(M) ==
    IF M.tasks["rs"].pc = "refused"
    THEN Goto(M, "rs", "stopped")
    ELSE LET hm == M.tasks["hm"]
             M1 == IF hm.pc \in AwaitingExit THEN Terminated(M, hm.proc)
                   ELSE M
         IN  [M1 EXCEPT !.tasks["hm"] = [IdleTask EXCEPT !.pc = "cancelled"],
                        !.tasks["rs"].pc = "stopped",
                        !.raised = {"CancelledError"}]

\* shutdown() is called once initialize() has returned or raised
Shutdown ==
    /\ tasks["rs"].pc \in {"idle", "refused"}
    /\ tasks["rs"].pc = "idle" => Len(recs) >= 1
    /\ LoopFree("rs")
    /\ Step(shutdown(Pack))

\* after PluginManager.__init__
StartInit ==
    /\ config \in {[max_restarts |-> 1, max_crashes |-> 2, rescans |-> 1,
                     removal |-> FALSE, default_timeout_sec |-> << >>,
                     max_timeout_sec |-> << >>, call_timeout_sec |-> << >>,
                     init_timeout_sec |-> << >>,
                     cgroup_enabled |-> e, cgroup_required |-> q,
                     cgroup_v2 |-> v] :
                        e \in BOOLEAN, q \in BOOLEAN, v \in BOOLEAN}
    /\ disk = "process"
    /\ cgroup_ready = FALSE
    /\ recs = << >>
    /\ registry = 0
    /\ procs = << >>
    /\ groups = << >>
    /\ tasks = [t \in TaskIds |->
                  IF t = "rs" THEN [IdleTask EXCEPT !.pc = "created"]
                  ELSE IdleTask]
    /\ sock = FALSE
    /\ uncounted = << >>
    /\ spawned = << >>
    /\ raised = {}
    /\ asked = << >>
    /\ reported = << >>
    /\ monitor = NoCycle
    /\ NoContext
    /\ client = NewClient(ExternalEndpoint, FALSE)
    /\ clock = 0
    /\ wire = NoCall

StartNext ==
    \/ Initialize
    \/ Shutdown
    \/ Rescan
    \/ HealthCheck
    \/ \E t \in TaskIds, graceful \in BOOLEAN : ProcessStopped(t, graceful)
    \/ \E t \in TaskIds, rpc \in RpcOutcomes : PollReply(t, rpc)
    \/ \E p \in 1..Len(procs) : Kill(p)

StartSpec == StartInit /\ [][StartNext]_vars

\* ------------------------------------------------------------------------
\* Properties
\* ------------------------------------------------------------------------
RecIds == 1..Len(recs)

\* the restart requests made by the step just taken
Asked == {asked'[i] : i \in 1..Len(asked')}

\* since the restart request noted in a, the step has launched no worker
\* for the record and has left its restart_count alone
NothingSince(a) ==
    /\ recs'[a.rid].restart_count = a.restart_count
    /\ spawned'[a.rid] = a.spawned

\* C1: once a record's status is disabled it stays disabled for as long as
\* the record is in the registry; no call, health check or restart attempt
\* changes it.
C1_DisabledStaysDisabled ==
    [][\A r \in RecIds :
          (recs[r].status = PLUGIN_STATE_DISABLED /\ registry = r
              /\ registry' = r)
          => recs'[r].status = PLUGIN_STATE_DISABLED]_vars

\* C2: after a successful call on a record (plugin_health, plugin_sync_users
\* or a periodic health check whose RPC was answered) the status is healthy
\* and consecutive_timeouts, consecutive_health_failures and
\* consecutive_crashes are all zero.
AfterSuccess(r) ==
    /\ recs'[r].status = PLUGIN_STATE_HEALTHY
    /\ recs'[r].consecutive_timeouts = 0
    /\ recs'[r].consecutive_health_failures = 0
    /\ recs'[r].consecutive_crashes = 0

C2_SuccessResetsAllCounters ==
    [][/\ \A t \in CallerIds : CallReply(t, "ok") => AfterSuccess(tasks[t].rid)
       /\ HealthReply("ok") => AfterSuccess(tasks["hm"].rid)]_vars

\* C3: when consecutive_crashes of a process record reaches max_crashes the
\* status becomes disabled, and from then on a crash signal of the record
\* seen by the health loop or by a call launches no worker and leaves
\* restart_count as it is.
C3_NoRestartAfterMaxCrashes ==
    [][/\ \A r \in RecIds :
             (recs[r].consecutive_crashes < max_crashes
                 /\ recs'[r].consecutive_crashes >= max_crashes)
             => recs'[r].status = PLUGIN_STATE_DISABLED
       /\ \A a \in Asked :
             (a.reason \in CrashReasons
                 /\ a.consecutive_crashes >= max_crashes)
             => NothingSince(a)]_vars

\* C3 witness: the step just taken saw a crash signal of a record whose
\* consecutive_crashes had already reached max_crashes, and asked for a
\* restart of it
C3_Witness ==
    \E i \in 1..Len(asked) :
        /\ asked[i].reason \in CrashReasons
        /\ asked[i].consecutive_crashes > max_crashes
        /\ recs[asked[i].rid].status = PLUGIN_STATE_DISABLED

\* restart_count before the step, 0 for a record the step creates
CountBefore(r) == IF r \in RecIds THEN recs[r].restart_count ELSE 0

\* the restart requests of the step that C4 wants refused: made on a
\* disabled record or with restart_count at max_restarts
Refused ==
    {a \in Asked : \/ a.status = PLUGIN_STATE_DISABLED
                   \/ a.restart_count >= max_restarts}

\* positions in asked' of the other requests for record r
Granted(r) ==
    {i \in 1..Len(asked') : asked'[i].rid = r /\ asked'[i] \notin Refused}

\* C4: restart_count of a process record never exceeds max_restarts, each
\* restart attempt takes one unit of it, so at most 1 + max_restarts workers
\* are launched for a record; a restart asked for with the budget used up
\* disables the record and launches nothing; a restart asked for on a
\* disabled record does nothing.
C4_RestartBudget ==
    [][\A r \in 1..Len(recs') :
          recs'[r].source = "process" =>
              /\ recs'[r].restart_count <= max_restarts
              /\ spawned'[r] <= 1 + recs'[r].restart_count
              /\ recs'[r].restart_count
                     = CountBefore(r) + Cardinality(Granted(r))
              /\ \A a \in Refused :
                     a.rid = r => /\ recs'[r].status = PLUGIN_STATE_DISABLED
                                  /\ NothingSince(a)]_vars

\* C4 witness: the budget is used up, 1 + max_restarts workers were
\* launched, and the record was disabled by a restart request (its crash
\* count is below max_crashes)
C4_Witness ==
    \E r \in RecIds :
        /\ recs[r].source = "process"
        /\ recs[r].restart_count = max_restarts
        /\ spawned[r] = 1 + max_restarts
        /\ recs[r].status = PLUGIN_STATE_DISABLED
        /\ recs[r].consecutive_crashes < max_crashes

\* C5: a caller-triggered call on a process record that exceeds its
\* deadline sets the status to degraded and raises consecutive_timeouts by
\* one; a restart is attempted by the call that makes the count equal to
\* timeout_restart_threshold and by no call that overshoots it.
C5_TimeoutsCountedRestartOnce ==
    [][\A t \in CallerIds :
          LET r == tasks[t].rid
          IN  (CallReply(t, "timeout") /\ recs[r].source = "process")
              => /\ recs'[r].consecutive_timeouts
                        = recs[r].consecutive_timeouts + 1
                 /\ (recs'[r].consecutive_timeouts < timeout_restart_threshold
                        => recs'[r].status = PLUGIN_STATE_DEGRADED)
                 /\ (recs'[r].restart_count # recs[r].restart_count
                        => recs'[r].consecutive_timeouts
                               = timeout_restart_threshold)]_vars

\* C6: a periodic health check of a process or grpc record whose Health RPC
\* fails without timing out raises consecutive_health_failures by one and
\* never leaves the record healthy.
C6_HealthFailureCounted ==
    [][LET r == tasks["hm"].rid
       IN  (HealthReply("fail") /\ recs[r].source \in {"process", "grpc"})
           => /\ recs'[r].consecutive_health_failures
                     = recs[r].consecutive_health_failures + 1
              /\ recs'[r].status # PLUGIN_STATE_HEALTHY]_vars

\* C7: consecutive_crashes of a record is raised once per worker failure,
\* however many detectors see the failure: never are more crashes counted
\* than failures have happened.
C7_FailureCountedOnce ==
    \A r \in RecIds : recs[r].manifest_ok => uncounted[r] >= 0

\* the workers launched for record r that are running
LiveWorkers(r) == {p \in 1..Len(procs) : procs[p].alive /\ procs[p].rid = r}

\* C8: at most one worker launched for a record is alive at any time.
C8_OneLiveWorker ==
    \A r \in RecIds : Cardinality(LiveWorkers(r)) <= 1

\* C9: a disabled process record has no live worker and holds no resource
\* group.
C9_DisabledIsReleased ==
    \A r \in RecIds :
        (recs[r].source = "process" /\ recs[r].status = PLUGIN_STATE_DISABLED)
        => /\ LiveWorkers(r) = {}
           /\ recs[r].cgroup_path = 0

\* C10: no worker is ever launched for a plugin whose manifest declares a
\* mismatched api_version.
C10_BadVersionNeverSpawned ==
    \A r \in RecIds : ~recs[r].manifest_ok => spawned[r] = 0
\* a healthy process record whose worker has exited (killed from outside)
\* and for which no crash is counted yet
KilledHealthy(r) ==
    /\ r # 0
    /\ recs[r].source = "process"
    /\ recs[r].status = PLUGIN_STATE_HEALTHY
    /\ recs[r].process = GONE
    /\ recs[r].consecutive_crashes = 0
    /\ ~OomIncreased(Pack, r)

\* C11: when a healthy worker was killed from outside, the next periodic
\* health check counts the crash (consecutive_crashes becomes 1 unless the
\* launch of the replacement fails as well) and launches a replacement with
\* a newly made token; and the health loop's restart is reported done only
\* when the replacement has answered Health.
C11_KilledWorkerReplaced ==
    [][/\ (HealthCheck /\ KilledHealthy(registry))
            => /\ recs'[registry].consecutive_crashes >= 1
               /\ recs'[registry].consecutive_crashes = 1
                     => spawned'[registry] = spawned[registry] + 1
               /\ tasks'["hm"].pc = "poll_wait"
                     => /\ recs'[registry].token # recs[registry].token
                        /\ Cardinality(LiveWorkers(registry)') = 1
       /\ \A rpc \in RpcOutcomes :
             LET r == tasks["hm"].rid
             IN  (PollReply("hm", rpc) /\ tasks["hm"].from = "restart"
                     /\ recs'[r].status = PLUGIN_STATE_INITIALIZED)
                 => invoke("process", "health", rpc) = "data"]_vars
\* the oom_kill counter of the group of record r has gone up since it was
\* last looked at, the worker has not exited, the record is not disabled
OomPending(r) ==
    /\ r # 0
    /\ recs[r].source = "process"
    /\ recs[r].status # PLUGIN_STATE_DISABLED
    /\ OomIncreased(Pack, r)
    /\ is_process_alive(Pack, r)

Dropping(r) ==
    IF tasks["rs"].pc = "idle"
    THEN disk = "absent" /\ registry = r /\ registry' = 0
    ELSE /\ tasks["rs"].from = "drop"
         /\ tasks["rs"].rid = r
         /\ tasks'["rs"].pc # tasks["rs"].pc

\* C13: when the rescan that follows the removal of a process plugin's
\* directory returns, the registry does not hold the plugin, no worker of
\* the dropped record runs, and the socket file does not exist.
C13_RemovedPluginIsGone ==
    [][\A r \in RecIds :
          (Dropping(r) /\ recs[r].source = "process"
              /\ tasks'["rs"].pc = "idle")
          => /\ registry' = 0
             /\ LiveWorkers(r)' = {}
             /\ ~sock']_vars

\* _cleanup_cgroup is called for record r while it has a group path
FreesGroup(r) == recs[r].cgroup_path > 0 /\ recs'[r].cgroup_path = 0

\* C14: in the shutdown of a dropped record the worker is terminated only
\* after the shutdown hook was awaited, and the group is freed only after
\* the terminated worker's exit was awaited: never while a worker of the
\* record still runs.
C14_ShutdownOrder ==
    [][\A r \in RecIds :
          Dropping(r)
          => /\ tasks'["rs"].pc = "sd_wait"
                   => tasks["rs"].pc = "hook_wait" \/ ~recs[r].plugin_obj
             /\ FreesGroup(r) => LiveWorkers(r)' = {}]_vars

\* C15: a rescan made while the registry's record is disabled and the
\* plugin is still on disk makes a new record whose restart_count and
\* failure counters are zero, so that restarts are available to it again,
\* and attempts a start for it (a worker is launched, or the launch fails
\* and the new record is crashed).
C15_RescanGivesFreshRecord ==
    [][(/\ Rescan
        /\ registry # 0
        /\ disk = "process"
        /\ recs[registry].status = PLUGIN_STATE_DISABLED)
       => LET n == Len(recs) + 1
          IN  /\ Len(recs') = n
              /\ recs'[n].restart_count = 0
              /\ recs'[n].restart_count < max_restarts
              /\ recs'[n].consecutive_crashes = 0
              /\ recs'[n].consecutive_timeouts = 0
              /\ recs'[n].consecutive_health_failures = 0
              /\ recs'[n].status # PLUGIN_STATE_DISABLED
              /\ spawned'[n] = 1 \/ recs'[n].status = PLUGIN_STATE_CRASHED
              /\ recs'[registry] = recs[registry]]_vars

\* C15 witness: the first record is disabled, the rescan has made a second
\* one and awaits the readiness of the worker it launched for it
C15_Witness ==
    /\ Len(recs) = 2
    /\ registry = 1
    /\ recs[1].status = PLUGIN_STATE_DISABLED
    /\ tasks["rs"].pc = "poll_wait"
    /\ tasks["rs"].rid = 2
    /\ spawned[2] = 1
    /\ recs[2].restart_count = 0

\* C16: a launch is reported successful (the readiness poll makes the
\* record healthy and _start_process_plugin returns) only when the worker
\* answered the Health RPC; and a launch whose readiness loop ran into the
\* deadline ends with the worker stopped and the failure raised (the record
\* is crashed or disabled, not healthy or initialized).
C16_ReadyMeansAnswered ==
    [][\A t \in TaskIds :
          LET r == tasks[t].rid
          IN  /\ \A rpc \in RpcOutcomes :
                    (/\ PollReply(t, rpc)
                     /\ recs'[r].status \in {PLUGIN_STATE_HEALTHY,
                                             PLUGIN_STATE_INITIALIZED})
                    => invoke("process", "health", rpc) = "data"
              /\ (tasks[t].pc = "dl_wait" /\ tasks'[t].pc # "dl_wait")
                    => recs'[r].status \in {PLUGIN_STATE_CRASHED,
                                             PLUGIN_STATE_DISABLED}]_vars

\* a call of the client failed less than the cool-down time ago
InWindow ==
    wire.failed_at # NotANumber /\ clock < wire.failed_at + COOLDOWN_SEC

\* C17: a call of the client that fails leaves the channel closed; a call
\* made less than the cool-down time after a failed one gives the
\* no-response result and neither opens a channel nor sends an RPC; the
\* channel stays closed during the window; a call made when no window is
\* running attempts the operation (validates and opens the channel if
\* there is none, and sends the RPC when the endpoint and payload are
\* accepted).
C17_CoolDown ==
    [][\A method \in {"health", "sync_users"}, rpc \in RpcOutcomes,
          payload_ok \in BOOLEAN :
          ClientCall(method, rpc, payload_ok)
          => /\ wire'.result = "None" => ~client'.channel
             /\ InWindow
                  => /\ wire'.result = "None"
                     /\ ~wire'.attempted /\ ~wire'.opened /\ ~wire'.sent
                     /\ client' = client
             /\ InWindow' => ~client'.channel
             /\ ~InWindow
                  => /\ wire'.attempted
                     /\ (/\ validate_endpoint(client.endpoint,
                                               client.allow_remote)
                          /\ (method = "health" \/ payload_ok))
                        => wire'.sent]_vars

\* C17 witness: a call failed, a later call was short-circuited, and the
\* last call, made after the window, was answered
C17_Witness ==
    /\ wire.result = "data"
    /\ wire.sent
    /\ wire.shorted
    /\ wire.failed_at # NotANumber
    /\ clock >= wire.failed_at + COOLDOWN_SEC

\* C18: the first call of a client made as the manager makes it for a
\* local worker (endpoint unix://<socket path>, allow_remote False) opens
\* the channel and sends the RPC, and gives what a client for a host:port
\* target gives for the same answer of the plugin.
C18_WorkerEndpointAccepted ==
    [][\A method \in {"health", "sync_users"}, rpc \in RpcOutcomes,
          payload_ok \in BOOLEAN :
          (/\ ClientCall(method, rpc, payload_ok)
           /\ client = NewClient(WorkerEndpoint, FALSE))
          => /\ wire'.opened
             /\ (method = "health" \/ payload_ok) => wire'.sent
             /\ wire'.result =
                   client_call(NewClient(ExternalEndpoint, FALSE), wire,
                               clock, method, rpc, payload_ok).wire.result]_vars

\* the host an endpoint names
TargetHost(e) == (CHOOSE tg \in Targets : tg.endpoint = e).host

\* the client is made without allow_remote for a network target whose host
\* is no loopback address
RemoteRefused ==
    /\ ~client.allow_remote
    /\ TargetHost(client.endpoint) \notin LoopbackHosts \cup {""}

\* C19: a client made without allow_remote for a network target whose
\* host is no loopback address never has a channel, and each of its calls
\* fails without a channel being opened or an RPC sent.
C19_NoRemoteChannel ==
    [][RemoteRefused
       => /\ ~client.channel /\ ~client'.channel
          /\ \A method \in {"health", "sync_users"}, rpc \in RpcOutcomes,
                payload_ok \in BOOLEAN :
                ClientCall(method, rpc, payload_ok)
                => /\ wire'.result = "None"
                   /\ ~wire'.opened /\ ~wire'.sent]_vars

\* C19 witness: a call was attempted on such a client whose endpoint names
\* a loopback host in the user part and a remote host after it
C19_Witness ==
    /\ RemoteRefused
    /\ FirstIndex(client.endpoint, "@") # 0
    /\ wire.attempted
    /\ wire.result = "None"
    /\ ~wire.opened

\* a caller's plugin_health / plugin_sync_users call is awaiting the plugin
Delegated(t) == tasks[t].pc = "sc_wait"

\* a configured timeout as the manager keeps it: between 0.1 s and 30 s
Kept(entry, default) ==
    IF entry = << >> THEN default
    ELSE IF entry[1] <= 1 THEN 1
    ELSE IF entry[1] >= 300 THEN 300
    ELSE entry[1]

\* C20 as stated: every delegated call runs under the smaller of the
\* manager's default timeout and its hard maximum timeout.
C20_DeadlineIsDefaultOrMax ==
    \A t \in CallerIds :
        Delegated(t)
        => \/ /\ tasks[t].timeout = default_timeout_sec
              /\ default_timeout_sec <= max_timeout_sec
           \/ /\ tasks[t].timeout = max_timeout_sec
              /\ max_timeout_sec <= default_timeout_sec

\* C20 amended: every delegated call runs under the smaller of the
\* manager's call timeout and its hard maximum timeout, where the call
\* timeout is the configured call_timeout_sec, or the default timeout when
\* none is configured, and every timeout is kept between 0.1 s and 30 s.
C20_DeadlineIsCallOrMax ==
    \A t \in CallerIds :
        Delegated(t)
        => LET hard == Kept(config.max_timeout_sec, 300)
               call == Kept(config.call_timeout_sec,
                            Kept(config.default_timeout_sec, 100))
           IN  /\ tasks[t].timeout \in {call, hard}
               /\ tasks[t].timeout <= call
               /\ tasks[t].timeout <= hard

\* C20 witness: a call is delegated under a configured call timeout that
\* is longer than the default timeout and shorter than the hard maximum
C20_Witness ==
    \E t \in CallerIds :
        /\ Delegated(t)
        /\ config.call_timeout_sec # << >>
        /\ tasks[t].timeout = config.call_timeout_sec[1]
        /\ tasks[t].timeout > default_timeout_sec
        /\ tasks[t].timeout < max_timeout_sec

\* C21: plugin_health / plugin_sync_users on an unknown name or on a
\* disabled record ends in the step it is made in, raising an error: the
\* plugin object is not awaited, no worker is launched or stopped, no
\* restart is asked for and no record, group or registry entry changes.
C21_FailFast ==
    [][\A t \in CallerIds, m \in {"health", "sync_users"} :
          (/\ Call(t, m)
           /\ \/ registry = 0
              \/ recs[registry].status = PLUGIN_STATE_DISABLED)
          => /\ raised' = IF registry = 0 THEN {"Plugin not found"}
                                          ELSE {"Plugin is disabled"}
             /\ tasks'[t].pc = "idle"
             /\ asked' = << >>
             /\ UNCHANGED <<recs, registry, procs, groups, sock, spawned,
                            uncounted>>]_vars

\* C21 witness: a call on a disabled record has just been refused while
\* a worker of the record is still running
C21_Witness ==
    /\ raised = {"Plugin is disabled"}
    /\ registry # 0
    /\ recs[registry].status = PLUGIN_STATE_DISABLED
    /\ LiveWorkers(registry) # {}

\* C22: whichever of the health loop and plugin_health issued it, a call
\* that runs into its deadline raises consecutive_timeouts of the record
\* and a Health call that fails otherwise raises its
\* consecutive_health_failures.
C22_SameCounters ==
    [][/\ \A rpc \in RpcOutcomes :
             LET r == tasks["hm"].rid
                 res == invoke(recs[r].source, "health", rpc)
             IN  HealthReply(rpc)
                 => /\ res = "timeout"
                         => recs'[r].consecutive_timeouts
                                = recs[r].consecutive_timeouts + 1
                    /\ res = "error"
                         => recs'[r].consecutive_health_failures
                                = recs[r].consecutive_health_failures + 1
       /\ \A t \in CallerIds, rpc \in RpcOutcomes :
             LET r == tasks[t].rid
                 res == invoke(recs[r].source, tasks[t].method, rpc)
             IN  CallReply(t, rpc)
                 => /\ res = "timeout"
                         => recs'[r].consecutive_timeouts
                                = recs[r].consecutive_timeouts + 1
                    /\ (res = "error" /\ tasks[t].method = "health")
                         => recs'[r].consecutive_health_failures
                                = recs[r].consecutive_health_failures + 1]_vars

\* C23: a call whose RPC runs into the deadline is over for its caller in
\* the step in which the deadline passes; and while a caller's call is
\* outstanding (request handed to the adapter, or sent and unanswered) the
\* event loop still runs the health monitor: an idle monitor with a plugin
\* to check can take its step.
C23_OutstandingRpcBlocksNobody ==
    /\ [][\A t \in CallerIds :
             (CallReply(t, "timeout") /\ tasks[t].pc = "sc_rpc")
             => tasks'[t].pc \notin {"sc_wait", "sc_rpc"}]_vars
    /\ [](\A t \in CallerIds :
             (/\ tasks[t].pc \in {"sc_wait", "sc_rpc"}
              /\ tasks["hm"].pc = "idle"
              /\ registry # 0
              /\ Len(recs) <= MaxProbed
              /\ Capped(registry))
             => HealthCheckEnabled)

\* the scopes each operation of the context asks for (require_scope)
Required ==
    [sync_user |-> {"users.write", "identity_tags.write"},
     list_users |-> {"users.read", "identity_tags.read"},
     list_identity_roles |-> {"roles.read"},
     upsert_identity_role |-> {"roles.write"},
     set_identity_tag |-> {"identity_tags.write"},
     emit_event |-> {"events.emit"}]

\* C24: every operation of the Capability Context called with a granted
\* scope set that lacks a scope the operation requires fails with a
\* permission error, and has written nothing to the identity store and
\* emitted no event.
C24_ScopeCheckedFirst ==
    [][\A op \in DOMAIN Required :
          (returned'.op = op /\ ~(Required[op] \subseteq context.scopes))
          => /\ returned'.status = "PluginPermissionError"
             /\ UNCHANGED <<identity, emitted>>]_vars

\* a call was refused for a missing scope after another one had written:
\* the context holds one of the two scopes sync_user needs
C24_Witness ==
    /\ returned.op = "sync_user"
    /\ returned.status = "PluginPermissionError"
    /\ identity.tags # {}
    /\ "users.write" \notin context.scopes
    /\ "identity_tags.write" \in context.scopes

DryRunScopes == {"users.write", "identity_tags.write", "events.emit"}

\* the step is a dry run leaving C for the given users: it returns one
\* would_sync preview per user and the identity store is as before
Previewed(plugin, C, users) ==
    Do(plugin, C) => /\ returned'.status = "dry_run"
             /\ Len(returned'.items) = Len(users)
             /\ \A i \in 1..Len(users) :
                   returned'.items[i].action = "would_sync"
             /\ UNCHANGED identity

\* C25: a plugin granted exactly users.write, identity_tags.write and
\* events.emit whose sync_users is called with dry_run = true and a list of
\* users returns one would_sync preview for each of them and leaves the
\* identity store unchanged.
C25_DryRunPreviews ==
    [][context.scopes = DryRunScopes
       => \A users \in UserLists \ {<< >>} :
             /\ Previewed("SampleSyncPlugin", SampleSyncPlugin(Ctx, TRUE, users), users)
             /\ Previewed("AdMigrationDemoPlugin",
                          AdMigrationDemoPlugin(Ctx, TRUE, users), users)]_vars

\* C26: for a manifest with the supported api_version the scopes loaded
\* into the manifest, and those of the context made for it, are exactly the
\* declared scopes that are on the allow-list.
C26_ScopesAreDeclaredAndAllowed ==
    manifest.loaded
    => /\ manifest.scopes = manifest.declared \cap ALLOWED_SCOPES
       /\ context.scopes = manifest.declared \cap ALLOWED_SCOPES

\* a plugin that declared a scope outside the allow-list next to allowed
\* ones has made a successful call on its context
C26_Witness ==
    /\ manifest.loaded
    /\ "admin.all" \in manifest.declared
    /\ "admin.all" \notin context.scopes
    /\ context.scopes # {}
    /\ returned.status = "ok"
    /\ identity.roles # {}

\* lower-cased and made of the permitted characters only
Normalized(s, permitted) ==
    /\ s = lower(s)
    /\ \A i \in 1..Len(s) : s[i] \in permitted

\* C30: every role tag and every database name in the identity store is
\* normalized: lower-cased, role tags made of letters, digits, "-" and "_",
\* database names of letters, digits, "_", "." and "-".
C30_StoredNamesNormalized ==
    /\ \A r \in identity.tags :
          /\ Normalized(r.role_tag, Alnum \cup {"-", "_"})
          /\ Normalized(r.db_name, Alnum \cup {"_", ".", "-"})
    /\ \A name \in identity.roles : Normalized(name, Alnum \cup {"-", "_"})

\* the workers launched by the step
Launched == {p \in 1..Len(procs') : /\ procs'[p].alive
                                    /\ p > Len(procs) \/ ~procs[p].alive}

\* the tokens held before the step: by the workers and by the adapters
HeldTokens ==
    {procs[q].token : q \in 1..Len(procs)}
        \cup {recs[r].token : r \in 1..Len(recs)}

\* C27: the token a worker is launched with carries only scopes of the
\* manifest's sanitized scopes and differs from the token of every earlier
\* launch (those the adapters of the records and the workers hold); and a
\* request to a worker whose token differs from the worker's launch token
\* is rejected without the plugin's code being run.
C27_TokenPerSpawn ==
    [][/\ \A p \in Launched :
            /\ procs'[p].token.scopes \subseteq sanitized_scopes(manifest)
            /\ procs'[p].token \notin HeldTokens
            /\ procs'[p].token # NoToken
       /\ \A p \in 1..Len(procs), token \in KnownTokens :
            (WorkerRequest(p, token) /\ token # procs[p].token)
            => ~served'.invoked]_vars

\* the second worker of a plugin with scopes has rejected a request that
\* carried the token of the first
C27_Witness ==
    /\ served.pid \in 1..Len(procs)
    /\ procs[served.pid].alive
    /\ ~served.invoked
    /\ served.token.nonce = <<1, 1>>
    /\ procs[served.pid].token.nonce = <<1, 2>>
    /\ procs[served.pid].token.scopes = {"users.read"}

\* C28: the resource group a launched worker is attached to is the one
\* created for this launch (groups are told apart by the launch they were
\* made for, as their directories are by the millisecond in the name): it
\* is none of the groups there were before the step; and no resource group
\* has two workers at the same time.
C28_GroupPerSpawn ==
    /\ [][\A p \in Launched :
             procs'[p].grp # 0
             => /\ groups'[procs'[p].grp].exists
                /\ groups'[procs'[p].grp].made = procs'[p].token.nonce
                /\ \A g \in 1..Len(groups) :
                      groups[g].made # groups'[procs'[p].grp].made]_vars
    /\ [](\A g \in 1..Len(groups) :
             Cardinality({p \in 1..Len(procs) : procs[p].grp = g}) <= 1)

\* the second worker of a record runs in its group while the group of the
\* first one is still there
C28_Witness ==
    /\ registry # 0
    /\ spawned[registry] >= 2
    /\ Cardinality({g \in 1..Len(groups) : groups[g].exists}) >= 2
    /\ \E p \in 1..Len(procs) : procs[p].alive /\ procs[p].grp # 0
                                  /\ procs[p].rid = registry

\* CgroupV2Manager.initialize failed
InitFailed == config.cgroup_enabled /\ ~config.cgroup_v2

\* C29: once initialize has run with a failed resource-group
\* initialization: if isolation is required it has raised, and there is no
\* record, no worker, nothing in the registry and no health check to come;
\* if isolation is optional it has gone on, the backend is marked not ready
\* and every worker runs without a resource group.
C29_RequiredIsolationRefuses ==
    (InitFailed /\ tasks["rs"].pc # "created")
    => IF config.cgroup_required
       THEN /\ tasks["rs"].pc \in {"refused", "stopped"}
            /\ recs = << >> /\ procs = << >> /\ registry = 0
            /\ spawned = << >>
            /\ ~HealthCheckEnabled /\ ~RescanEnabled
       ELSE /\ tasks["rs"].pc # "refused"
            /\ ~cgroup_ready
            /\ groups = << >>
            /\ \A p \in 1..Len(procs) : procs[p].grp = 0

\* isolation optional and not available: a worker runs, without a group,
\* and the health monitor can check it
C29_Witness ==
    /\ InitFailed /\ ~config.cgroup_required
    /\ registry # 0
    /\ \E p \in 1..Len(procs) : procs[p].alive /\ procs[p].grp = 0
    /\ HealthCheckEnabled

\* C34: when the rescans made so far have returned (and no other task is
\* under way), every worker that runs is the one the record in the registry
\* refers to: a plugin name has at most one live worker and none that no
\* registry record references.
C34_NoWorkerOutsideRegistry ==
    (\A t \in TaskIds : tasks[t].pc = "idle")
    => \A p \in 1..Len(procs) :
          procs[p].alive => /\ registry # 0
                            /\ procs[p].rid = registry
                            /\ recs[registry].process = p

\* task t is in the middle of a restart of its record: _maybe_restart has
\* called _start_process_plugin, which waits for the old worker to leave
\* (the handle is cleared), for the failed attach or for a readiness poll
Restarting(t) ==
    /\ tasks[t].from = "restart"
    /\ tasks[t].pc \in {"stop_wait", "assign_wait", "poll_wait", "poll_sleep",
                        "dl_wait"}

\* C35: while a restart of a record is in progress, a step of another
\* health check or call on the same record counts no crash for it and
\* starts no second restart
C35_RestartNotDisturbed ==
    [][\A t \in TaskIds : \A u \in (CallerIds \cup {"hm"}) \ {t} :
          (/\ Restarting(t)
           /\ tasks'[u] # tasks[u]
           /\ tasks[t].rid \in {tasks[u].rid, tasks'[u].rid})
          => /\ recs'[tasks[t].rid].consecutive_crashes
                    = recs[tasks[t].rid].consecutive_crashes
             /\ recs'[tasks[t].rid].restart_count
                    = recs[tasks[t].rid].restart_count]_vars

\* C37: when _start_process_plugin reports a failure, the record refers to
\* no process and to no resource group, and the worker the failed attempt
\* launched does not run
C37_FailedSpawnLeavesNothing ==
    \A i \in 1..Len(reported) :
        /\ reported[i].process = 0
        /\ reported[i].cgroup_path = 0
        /\ reported[i].live = {}

\* positions where a task waits for a plugin method the manager invoked: a
\* call, a health check, a readiness poll, initialize
Invoking == {"sc_wait", "sc_rpc", "hc_wait", "hc_rpc", "poll_wait",
             "init_wait"}

\* C39: every call, health check, readiness poll and initialize the manager
\* makes runs under a deadline of at least 0.1 s and at most the configured
\* hard maximum timeout
C39_DeadlineWithinMaximum ==
    \A t \in TaskIds :
        tasks[t].pc \in Invoking
        => /\ tasks[t].timeout >= 1
           /\ tasks[t].timeout <= max_timeout_sec

\* C36: once shutdown() has ended, the health monitor is stopped (or was
\* never started) and no worker the manager launched is alive
C36_ShutdownStopsWorkers ==
    tasks["rs"].pc = "stopped"
    => /\ tasks["hm"].pc \in {"idle", "cancelled"}
       /\ \A u \in CallerIds : tasks[u].pc = "idle"
       /\ \A p \in 1..Len(procs) : ~procs[p].alive

\* ---- the health monitor over the plugins of the registry ----
\* The registry is followed with several plugins in it: every record of
\* recs is in self._plugins, each under a name of its own.
NPlugins == 2          \* plugins in the registry
MaxCycles == 2         \* cycles of the health monitor

\* list(self._plugins.values())
plugins_values(M) == [i \in 1..Len(M.recs) |-> i]

\* the for loop of the monitor leaving the cycle once a check ended badly
next_record_unguarded(M) ==
    LET rid == Head(M.monitor.items)
    IN  IF rid > 1 /\ M.recs[rid - 1].status # PLUGIN_STATE_HEALTHY
        THEN [M EXCEPT !.monitor.items = << >>]
        ELSE [M EXCEPT !.monitor.items = Tail(@),
                       !.monitor.checked = @ \cup {rid},
                       !.tasks["hm"].pc = "hc", !.tasks["hm"].rid = rid]

\* "for rec in items: try: await self._health_check(rec) except Exception:
\* log": the check of the next record is begun however the last one ended
next_record(M) ==
    LET rid == Head(M.monitor.items)
    IN  [M EXCEPT !.monitor.items = Tail(@),
                  !.monitor.checked = @ \cup {rid},
                  !.tasks["hm"].pc = "hc", !.tasks["hm"].rid = rid]

\* the monitor task runs until it is suspended inside a check or the
\* records of the cycle are used up (it then sleeps until the next cycle)
RECURSIVE health_monitor_loop(_)
health_monitor_loop(M) ==
    IF M.tasks["hm"].pc # "idle" \/ M.monitor.items = << >> THEN M
    ELSE health_monitor_loop(Run(next_record(M), "hm"))

\* asyncio.sleep(health_interval_sec) ends: the records are listed and the
\* first is checked
MonitorCycleEnabled ==
    /\ tasks["hm"].pc = "idle"
    /\ monitor.items = << >>
    /\ monitor.cycles < MaxCycles
    /\ LoopFree("hm")

MonitorCycleRun(h) ==
    health_monitor_loop([Begin(h) EXCEPT
        !.monitor = [items |-> plugins_values(Pack), checked |-> {},
                     cycles |-> monitor.cycles + 1]])

MonitorCycle ==
    /\ MonitorCycleEnabled
    /\ \E h \in HostChoices(MonitorCycleRun("ok")) :
          \E M \in {MonitorCycleRun(h)} : Step(M)

\* the steps of a check the monitor was suspended in; the loop goes on
\* when the check has ended
MonitorHealthReply(rpc) ==
    /\ HealthReplyEnabled(rpc)
    /\ \E h \in HostChoices(health_monitor_loop(HealthReplyRun(rpc, "ok"))) :
          \E M \in {health_monitor_loop(HealthReplyRun(rpc, h))} : Step(M)

MonitorProcessStopped(graceful) ==
    /\ ProcessStoppedEnabled("hm")
    /\ \E h \in HostChoices(health_monitor_loop(
                            ProcessStoppedRun("hm", graceful, "ok"))) :
          \E M \in {health_monitor_loop(
                        ProcessStoppedRun("hm", graceful, h))} : Step(M)

MonitorPollReply(rpc) ==
    /\ PollReplyEnabled("hm", rpc)
    /\ \E h \in HostChoices(health_monitor_loop(PollReplyRun("hm", rpc, "ok"))) :
          \E M \in {health_monitor_loop(PollReplyRun("hm", rpc, h))} :
              Step(M)

\* a record of the registry after initialize(): an external or in-process
\* plugin that was initialized, or a process plugin whose launch failed
Installed(src) ==
    IF src = "process"
    THEN [PluginRecord(src) EXCEPT !.status = PLUGIN_STATE_CRASHED,
                                   !.plugin_dir = "dir"]
    ELSE [PluginRecord(src) EXCEPT !.plugin_obj = TRUE]

MonitorInit ==
    /\ config = [max_restarts |-> 1, max_crashes |-> 2, rescans |-> 1,
                 removal |-> FALSE, default_timeout_sec |-> << >>,
                 max_timeout_sec |-> << >>, call_timeout_sec |-> << >>,
                 init_timeout_sec |-> << >>]
    /\ disk = "process"
    /\ cgroup_ready = FALSE
    /\ \E srcs \in [1..NPlugins -> {"grpc", "in_process", "process"}] :
          /\ recs = [i \in 1..NPlugins |-> Installed(srcs[i])]
          /\ uncounted = [i \in 1..NPlugins |->
                             IF srcs[i] = "process" THEN 1 ELSE 0]
    /\ spawned = [i \in 1..NPlugins |-> 0]
    /\ registry = 1
    /\ procs = << >>
    /\ groups = << >>
    /\ tasks = [t \in TaskIds |-> IdleTask]
    /\ sock = FALSE
    /\ raised = {}
    /\ asked = << >>
    /\ reported = << >>
    /\ monitor = NoCycle
    /\ NoContext
    /\ client = NewClient(ExternalEndpoint, FALSE)
    /\ clock = 0
    /\ wire = NoCall

\* the steps that an await of the monitor task ends with: every one of
\* them is under a deadline (wait_for, the grace period before SIGKILL)
MonitorProgress ==
    \/ MonitorCycle
    \/ \E rpc \in RpcOutcomes : MonitorHealthReply(rpc)
    \/ RpcSent("hm")
    \/ \E graceful \in BOOLEAN : MonitorProcessStopped(graceful)
    \/ \E rpc \in RpcOutcomes : MonitorPollReply(rpc)

MonitorNext ==
    \/ MonitorProgress
    \/ Shutdown

\* the guards of MonitorProgress: the monitor task can take a step
MonitorProgressEnabled ==
    \/ MonitorCycleEnabled
    \/ \E rpc \in RpcOutcomes : HealthReplyEnabled(rpc)
    \/ ProcessStoppedEnabled("hm")
    \/ \E rpc \in RpcOutcomes : PollReplyEnabled("hm", rpc)

\* weak fairness of MonitorProgress, WF_vars(MonitorProgress), written out
\* with the guards in the place of ENABLED: the event loop runs the
\* monitor task whenever the await it is suspended in has ended, and every
\* one of its awaits ends (sleep, wait_for, SIGKILL after the grace period)
MonitorFair ==
    \/ []<>(~MonitorProgressEnabled)
    \/ []<><<MonitorProgress>>_vars

MonitorSpec == MonitorInit /\ [][MonitorNext]_vars /\ MonitorFair

\* shutdown() has cancelled the monitor
Stopped == tasks["hm"].pc = "cancelled"

\* cycle n of the monitor has ended and every record was checked in it
CycleDone(n) ==
    /\ monitor.cycles = n
    /\ tasks["hm"].pc = "idle"
    /\ monitor.items = << >>
    /\ monitor.checked = 1..Len(recs)

\* C40: until shutdown the monitor goes from cycle to cycle, and a cycle
\* ends with every record of the registry checked, whatever the checks of
\* the records before it gave (failure, timeout, crash, failed restart)
C40_MonitorChecksEveryRecord ==
    \A k \in 0..(MaxCycles - 1) :
        (monitor.cycles = k /\ monitor.items = << >> /\ tasks["hm"].pc = "idle")
            ~> (Stopped \/ CycleDone(k + 1))

\* C40 witness: the second cycle has ended with both records checked, the
\* first of them having failed its checks
C40_Witness ==
    /\ CycleDone(MaxCycles)
    /\ recs[1].status \notin {PLUGIN_STATE_HEALTHY, PLUGIN_STATE_INITIALIZED}
    /\ NPlugins \in monitor.checked

\* ---- the worker's main program (plugin_runner.py) ----
\* The worker is a program of its own: its state is the variable runner.  Its
\* inputs are the command line (--plugin-name, --allow-root), the identity it
\* runs under, and the plugin directory it is pointed at: whether plugin.py
\* exists, the descriptor plugin.json, and the *.py files under the
\* directory.  A file is "inside" when its resolved path lies in the
\* directory, "outside" when it is a link that leaves it, and "linked" when
\* it lies under a sub-directory that is itself a symbolic link leaving the
\* directory.
MaxFiles == 2
MaxSignals == 2
FileKinds == {"inside", "outside", "linked"}
RunnerNames == {<<"a", "b">>, <<" ", "a", "_", " ">>, <<"a">>, <<"_", "a">>,
                <<"a", ".", "b">>}
Descriptors == {"absent", "ok", "badversion", "malformed"}

\* PLUGIN_NAME_RE.fullmatch(name)
\* without the anchor on the first character
name_matches_loose(name) ==
    /\ Len(name) >= 2
    /\ Len(name) <= 64
    /\ \A i \in 1..Len(name) : name[i] \in Alnum \cup {"_", "-"}

name_matches(name) ==
    /\ Len(name) >= 2
    /\ Len(name) <= 64
    /\ name[1] \in Alnum
    /\ \A i \in 2..Len(name) : name[i] \in Alnum \cup {"_", "-"}

\* os.walk(plugin_dir): followlinks is off, a sub-directory that is a
\* symbolic link is listed and not entered
os_walk(files) == SelectSeq(files, LAMBDA f : f # "linked")

\* PluginWorker._compile_plugin: the files in walk order; the first one
\* that resolves outside the directory raises
compile_plugin(files) ==
    \A i \in 1..Len(os_walk(files)) : os_walk(files)[i] = "inside"

\* PluginWorker._load_manifest: a descriptor that is absent reads as {}
worker_manifest_ok(descriptor) == descriptor \in {"absent", "ok"}

\* PluginWorker.load with the import ahead of the compilation pass
worker_load_import_first(R, loads) ==
    IF ~R.plugin_py THEN [R EXCEPT !.failed = TRUE]
    ELSE IF ~worker_manifest_ok(R.descriptor) THEN [R EXCEPT !.failed = TRUE]
    ELSE IF ~compile_plugin(R.files)
    THEN [R EXCEPT !.imported = TRUE, !.failed = TRUE]
    ELSE [R EXCEPT !.imported = TRUE, !.failed = ~loads]

\* PluginWorker.load; loads: the module body, the interface version the
\* module declares and create_plugin() all go through
worker_load(R, loads) ==
    IF ~R.plugin_py THEN [R EXCEPT !.failed = TRUE]
    ELSE IF ~worker_manifest_ok(R.descriptor) THEN [R EXCEPT !.failed = TRUE]
    ELSE IF ~compile_plugin(R.files) THEN [R EXCEPT !.failed = TRUE]
    ELSE [R EXCEPT !.imported = TRUE, !.failed = ~loads]

runner_exit(R, code) == [R EXCEPT !.pc = "exited", !.code = code]

\* main(), up to server.wait_for_termination(); inits: the plugin's
\* initialize hook returns in time; binds: add_insecure_port succeeds
runner_main(R, loads, inits, binds) ==
    LET plugin_name == strip(R.name, Whitespace)
        cleared == [R EXCEPT !.socket_file = FALSE]
        loaded == worker_load(cleared, loads)
    IN  IF ~name_matches(plugin_name) THEN runner_exit(R, 2)
        ELSE IF R.root /\ ~R.allow_root THEN runner_exit(R, 3)
        ELSE IF loaded.failed THEN runner_exit(loaded, 4)
        ELSE IF ~inits THEN runner_exit(loaded, 4)
        ELSE IF ~binds THEN runner_exit(loaded, 5)
        ELSE [loaded EXCEPT !.pc = "serving", !.bound = TRUE,
                            !.socket_file = TRUE]

\* _stop_handler without the test of stop_event
stop_handler_unguarded(R) ==
    [R EXCEPT !.stopping = TRUE, !.pc = "hook",
              !.signals = R.signals + 1,
              !.did = Append(R.did, "hook")]

\* _stop_handler, up to the call of the plugin's shutdown hook
stop_handler(R) ==
    IF R.stopping THEN [R EXCEPT !.signals = R.signals + 1]
    ELSE [R EXCEPT !.stopping = TRUE, !.pc = "hook",
                   !.signals = R.signals + 1,
                   !.did = Append(R.did, "hook")]

RunnerIdle ==
    /\ ManagerIdle
    /\ UNCHANGED <<client, clock, wire, manifest, context, identity, emitted,
                   returned, served, scan>>

RunnerMain ==
    /\ runner.pc = "start"
    /\ \E loads \in BOOLEAN, inits \in BOOLEAN, binds \in BOOLEAN :
          runner' = runner_main(runner, loads, inits, binds)
    /\ RunnerIdle

\* SIGTERM or SIGINT is delivered while the handlers are installed
Signal ==
    /\ runner.pc \in {"serving", "hook", "draining"}
    /\ runner.signals < MaxSignals
    /\ runner' = stop_handler(runner)
    /\ RunnerIdle

\* worker.shutdown() is over (the hook returned, raised, or ran into its
\* 3 s limit; every case is swallowed); server.stop(grace=1)
HookEnds ==
    /\ runner.pc = "hook"
    /\ runner' = [runner EXCEPT !.pc = "draining",
                                !.did = Append(runner.did, "stop")]
    /\ RunnerIdle

\* server.wait_for_termination() returns; finally: socket_path.unlink
ServerTerminated ==
    /\ runner.pc = "draining"
    /\ runner' = [runner EXCEPT !.pc = "exited", !.code = 0,
                                !.socket_file = FALSE,
                                !.did = Append(runner.did, "unlink")]
    /\ RunnerIdle

RunnerInit ==
    /\ config = CHOOSE c \in Scenarios : TRUE
    /\ disk = "process"
    /\ cgroup_ready = FALSE
    /\ Constructed
    /\ client = NewClient(ExternalEndpoint, FALSE)
    /\ clock = 0
    /\ wire = NoCall
    /\ manifest = [declared |-> {}, api_version |-> "", scopes |-> {},
                   loaded |-> FALSE]
    /\ context = [scopes |-> {}, event_bus |-> FALSE]
    /\ identity = [users |-> {}, tags |-> {}, roles |-> {}]
    /\ emitted = << >>
    /\ returned = NoResult
    /\ served = NoRequest
    /\ scan = NoScan
    /\ \E name \in RunnerNames, root \in BOOLEAN, allow_root \in BOOLEAN,
          plugin_py \in BOOLEAN, descriptor \in Descriptors,
          n \in 0..MaxFiles, stale \in BOOLEAN :
          \E files \in [1..n -> FileKinds] :
             runner = [pc |-> "start", name |-> name, root |-> root,
                       allow_root |-> allow_root, plugin_py |-> plugin_py,
                       descriptor |-> descriptor, files |-> files,
                       socket_file |-> stale, bound |-> FALSE,
                       imported |-> FALSE, failed |-> FALSE, code |-> 0,
                       stopping |-> FALSE, signals |-> 0, did |-> << >>]

RunnerNext == RunnerMain \/ Signal \/ HookEnds \/ ServerTerminated

RunnerSpec == RunnerInit /\ [][RunnerNext]_vars

\* the start-up checks the worker is to pass before it serves
StartupChecksPass ==
    /\ name_matches(strip(runner.name, Whitespace))
    /\ ~(runner.root /\ ~runner.allow_root)
    /\ runner.descriptor # "badversion"
    /\ \A i \in 1..Len(runner.files) : runner.files[i] = "inside"

\* C33: the worker executes plugin code and binds its socket only after
\* every start-up check has passed (a valid name, not the superuser unless
\* overridden, a supported api_version in the descriptor, every source file
\* under the plugin directory resolving inside it); when a check fails it
\* exits with a non-zero code, has not imported the plugin and has not
\* created the socket.
C33_ServesOnlyAfterChecks ==
    runner.pc \notin {"none", "start"} =>
        /\ (runner.imported \/ runner.bound) => StartupChecksPass
        /\ ~StartupChecksPass =>
              /\ runner.pc = "exited"
              /\ runner.code # 0
              /\ ~runner.imported
              /\ ~runner.bound

MaxEntries == 2
DirNames == {<<"_", "a">>, <<"a">>, <<"a", ".", "b">>, <<"a", "_">>,
             <<"a", "b">>}
ExternalNames == {<< >>, <<" ", "a", "b", " ">>, <<"a", ".", "b">>,
                  <<"a", "b">>, <<"C", "-", "1">>}
EntryShapes ==
    {[kind |-> "file", descriptor |-> "ok", starts |-> TRUE],
     [kind |-> "empty", descriptor |-> "ok", starts |-> TRUE]}
    \cup [kind : {"plugin"}, descriptor : {"ok", "malformed", "badversion"},
          starts : BOOLEAN]

\* the characters of the names, in code-point order
CharOrder == <<" ", "-", ".", "0", "1", "C", "D", "_", "a", "b", "c", "d",
               "e", "m", "q", "r", "s", "t", "u", "v", "x", "y">>
ord(c) == CHOOSE i \in 1..Len(CharOrder) : CharOrder[i] = c

\* a < b on str
RECURSIVE str_less(_, _)
str_less(a, b) ==
    IF a = << >> THEN b # << >>
    ELSE IF b = << >> THEN FALSE
    ELSE IF a[1] = b[1] THEN str_less(Tail(a), Tail(b))
    ELSE ord(a[1]) < ord(b[1])

\* sorted(scan_root.iterdir(), key=lambda p: p.name)
RECURSIVE sorted_by_name(_)
sorted_by_name(entries) ==
    IF entries = {} THEN << >>
    ELSE LET first == CHOOSE e \in entries :
                         \A o \in entries \ {e} : str_less(e.name, o.name)
         IN  <<first>> \o sorted_by_name(entries \ {first})

\* out[name] = rec
dict_put(out, rec) == {r \in out : r.name # rec.name} \cup {rec}

NewScan(name, source, status) ==
    [name |-> name, source |-> source, status |-> status]

\* PluginManager._scan_in_process_plugins from entry i on; found collects
\* the records and what was done for which name
RECURSIVE scan_in_process_plugins(_, _, _)
scan_in_process_plugins(entries, i, found) ==
    IF i > Len(entries) THEN found
    ELSE LET entry == entries[i]
             name == entry.name
             next == scan_in_process_plugins(entries, i + 1, found)
         IN  IF entry.kind = "file" THEN next
             ELSE IF ~name_matches(name) THEN next
             ELSE IF entry.kind = "empty" THEN next
             ELSE IF entry.descriptor # "ok"
             THEN [found EXCEPT !.loaded = @ \cup {name}, !.raised = TRUE]
             ELSE scan_in_process_plugins(entries, i + 1,
                     [found EXCEPT
                        !.loaded = @ \cup {name},
                        !.compiled = @ \cup {name},
                        !.out = dict_put(@, NewScan(name, "in_process",
                                   IF entry.starts THEN "healthy"
                                   ELSE "degraded"))])

\* PluginManager._scan_process_plugins from entry i on
RECURSIVE scan_process_plugins(_, _, _)
scan_process_plugins(entries, i, found) ==
    IF i > Len(entries) THEN found
    ELSE LET entry == entries[i]
             name == entry.name
             next == scan_process_plugins(entries, i + 1, found)
         IN  IF entry.kind = "file" THEN next
             ELSE IF ~name_matches(name) THEN next
             ELSE IF entry.kind = "empty" THEN next
             ELSE IF entry.descriptor # "ok"
             THEN scan_process_plugins(entries, i + 1,
                     [found EXCEPT
                        !.loaded = @ \cup {name},
                        !.out = dict_put(@, NewScan(name, "process",
                                                    "degraded"))])
             ELSE scan_process_plugins(entries, i + 1,
                     [found EXCEPT
                        !.loaded = @ \cup {name},
                        !.spawned = @ \cup {name},
                        !.out = dict_put(@, NewScan(name, "process",
                                   IF entry.starts THEN "healthy"
                                   ELSE "crashed"))])

\* PluginManager._scan_external_grpc_plugins from item i on
RECURSIVE scan_external_grpc_plugins(_, _, _)
scan_external_grpc_plugins(external, i, found) ==
    IF i > Len(external) THEN found
    ELSE LET item == external[i]
             name == strip(item.name, Whitespace)
             next == scan_external_grpc_plugins(external, i + 1, found)
         IN  IF name = << >> \/ ~item.endpoint THEN next
             ELSE IF ~name_matches(name) THEN next
             ELSE scan_external_grpc_plugins(external, i + 1,
                     [found EXCEPT
                        !.adapted = @ \cup {name},
                        !.out = dict_put(@, NewScan(name, "grpc",
                                   IF item.starts THEN "healthy"
                                   ELSE "degraded"))])

NothingFound ==
    [out |-> {}, raised |-> FALSE, loaded |-> {}, compiled |-> {},
     spawned |-> {}, adapted |-> {}]

\* PluginManager.rescan: discovered.update(...) of the three scans in turn,
\* then self._plugins = discovered; an exception out of a scan leaves
\* rescan before the assignment
rescan_entries(S) ==
    LET entries == sorted_by_name(S.dir)
        a == IF S.in_process_enabled
             THEN scan_in_process_plugins(entries, 1, NothingFound)
             ELSE NothingFound
        b == IF a.raised \/ ~S.process_runtime_enabled THEN a
             ELSE scan_process_plugins(entries, 1, a)
        c == IF b.raised THEN b
             ELSE scan_external_grpc_plugins(S.external, 1, b)
    IN  [S EXCEPT !.done = TRUE,
                  !.raised = c.raised,
                  !.installed = ~c.raised,
                  !.plugins = IF c.raised THEN S.plugins ELSE c.out,
                  !.loaded = c.loaded,
                  !.compiled = c.compiled,
                  !.spawned = c.spawned,
                  !.adapted = c.adapted]

RescanEntries ==
    /\ ~scan.done
    /\ scan' = rescan_entries(scan)
    /\ ManagerIdle
    /\ UNCHANGED <<client, clock, wire, manifest, context, identity, emitted,
                   returned, served, runner>>

ScanInit ==
    /\ config = CHOOSE c \in Scenarios : TRUE
    /\ disk = "process"
    /\ cgroup_ready = FALSE
    /\ Constructed
    /\ client = NewClient(ExternalEndpoint, FALSE)
    /\ clock = 0
    /\ wire = NoCall
    /\ manifest = [declared |-> {}, api_version |-> "", scopes |-> {},
                   loaded |-> FALSE]
    /\ context = [scopes |-> {}, event_bus |-> FALSE]
    /\ identity = [users |-> {}, tags |-> {}, roles |-> {}]
    /\ emitted = << >>
    /\ returned = NoResult
    /\ served = NoRequest
    /\ runner = NoRunner
    /\ \E names \in SUBSET DirNames, in_process \in BOOLEAN,
          process \in BOOLEAN, n \in 0..1 :
          /\ Cardinality(names) <= MaxEntries
          /\ \E shape \in [names -> EntryShapes],
                external \in [1..n -> [name : ExternalNames,
                                       endpoint : BOOLEAN,
                                       starts : BOOLEAN]] :
                scan = [done |-> FALSE,
                        in_process_enabled |-> in_process,
                        process_runtime_enabled |-> process,
                        dir |-> {[name |-> nm, kind |-> shape[nm].kind,
                                  descriptor |-> shape[nm].descriptor,
                                  starts |-> shape[nm].starts] : nm \in names},
                        external |-> external,
                        plugins |-> {}, raised |-> FALSE,
                        installed |-> FALSE, loaded |-> {}, compiled |-> {},
                        spawned |-> {}, adapted |-> {}]

ScanNext == RescanEntries

ScanSpec == ScanInit /\ [][ScanNext]_vars

\* the strict slug pattern: a letter or digit, then 1 to 63 letters, digits,
\* underscores or hyphens
Slug(name) ==
    /\ Len(name) \in 2..64
    /\ Head(name) \in Alnum
    /\ \A i \in DOMAIN Tail(name) : Tail(name)[i] \in Alnum \cup {"_", "-"}

\* C31: no record is created and no process is spawned for a directory or
\* an external entry whose name does not match the strict slug pattern, and
\* nothing is done for such an entry before the name is checked: no manifest
\* is loaded, nothing is compiled, no worker is spawned and no adapter is
\* built under a name that is not a slug.
C31_OnlySlugsAreScanned ==
    scan.done =>
        /\ \A r \in scan.plugins : Slug(r.name)
        /\ \A name \in scan.loaded \cup scan.compiled \cup scan.spawned
                       \cup scan.adapted : Slug(name)
        /\ \A e \in scan.dir :
              ~Slug(e.name) => \A r \in scan.plugins : r.name # e.name

C31_Witness ==
    /\ scan.done
    /\ \E e \in scan.dir : e.kind = "plugin" /\ ~Slug(e.name)
    /\ scan.spawned # {}
    /\ scan.compiled # {}
    /\ Len(scan.external) = 1
    /\ ~Slug(strip(scan.external[1].name, Whitespace))
    /\ scan.external[1].endpoint

\* a plugin the rescan is to discover: a directory with plugin.py, a slug
\* for a name and a well-formed descriptor of the supported api_version
ValidPlugin(e) ==
    /\ e.kind = "plugin"
    /\ Slug(e.name)
    /\ e.descriptor = "ok"

\* C38: a plugin with a malformed descriptor or an unsupported api_version
\* does not prevent the discovery of the others: in every runtime mode the
\* rescan completes and installs a registry that holds every other valid
\* plugin.
C38_BadDescriptorDoesNotStopDiscovery ==
    (/\ scan.done
     /\ scan.in_process_enabled \/ scan.process_runtime_enabled
     /\ \E e \in scan.dir : e.kind = "plugin" /\ e.descriptor # "ok") =>
        /\ ~scan.raised
        /\ scan.installed
        /\ \A e \in scan.dir :
              ValidPlugin(e) => \E r \in scan.plugins : r.name = e.name

====
